---- MODULE Spec2Model ----
(***************************************************************************)
(* Conversation turn orchestration of the Open-LLM-VTuber web backend.     *)
(*                                                                         *)
(*   - TTSTaskManager (conversation.py): concurrent synthesis, ordered     *)
(*     delivery through next_index_to_play.                                *)
(*   - conversation_chain (conversation.py) driven by the /client-ws route *)
(*     (routes.py).                                                        *)
(*   - handle_conversation_trigger / handle_individual_interrupt /         *)
(*     handle_group_interrupt (conversation_handler.py) driving            *)
(*     process_single_conversation (single_conversation.py).               *)
(*                                                                         *)
(* asyncio is modelled as cooperative scheduling: one action is the code   *)
(* a task runs from one suspension point (await) to the next.              *)
(***************************************************************************)
EXTENDS Integers, Sequences, FiniteSets, TLC

\* ------------------------------------------------------------ bounds
MaxJobs == 3      \* speak calls made on the stand-alone TTSTaskManager
MaxIncr == 2      \* increments one generation sequence yields at most
MaxTurns == 2     \* turn tasks created in one run
MaxGroupTurns == 3    \* triggers received from the members of one group

\* the task slots of a run
MaxTasks == IF MaxGroupTurns > MaxTurns THEN MaxGroupTurns ELSE MaxTurns

Jobs == 1..(MaxJobs + MaxTasks * MaxIncr)
\* the speak call of turn t for its k-th increment
JobOf(t, k) == MaxJobs + (t - 1) * MaxIncr + k
Turns == 1..MaxTasks
Mgrs == 0..MaxTasks          \* manager 0 is the stand-alone one; manager t is turn t's

\* Sentences handed to speak; " " is a whitespace-only sentence.
Sentences == {"a", " "}

VARIABLES
    task_list,            \* [Mgrs -> Seq(Jobs)]   TTSTaskManager.task_list (tts tasks, by job)
    next_index_to_play,   \* [Mgrs -> Nat]         TTSTaskManager.next_index_to_play
    spk,                  \* [Jobs -> record]      one speak call: where it is suspended
    synth,                \* [Jobs -> status]      the tts_task of a speak call
    files,                \* SUBSET Jobs           audio cache files that exist
    njobs,                \* speak calls made so far
    wire,                 \* [Mgrs -> Seq(message)]  what websocket_send delivered
                          \*   for each turn, in order (0: outside a turn)
    turns,                \* [Turns -> record]     turn tasks
    history,              \* Seq(record)           chat history store, in order
    current_conversation_task,  \* /client-ws: the task the route holds, 0 for None
    pending,              \* /client-ws: the trigger whose branch is suspended, "" if none
    ninterrupts,          \* interrupt signals received so far
    current_conversation_tasks, \* [Keys -> 0..MaxTasks]  the handlers' registry: the task
                          \*   kept under a client or group id, 0 if the key is absent
    client_history,       \* [Clients -> Seq(record)]  the history of each client context
    history_uid,          \* SUBSET Clients       the contexts that have a history id
    group_state,          \* [Groups -> speaker]  GroupConversationState: current_speaker_uid
    ntriggers,            \* conversation triggers received so far
    group_interrupts,     \* [Clients -> record]  the handle_group_interrupt call made for
                          \*   a client's interrupt signal: where it is suspended
    notified,             \* [Clients -> Nat]     "interrupt-signal" notifications that
                          \*   broadcast_to_group delivered to the client
    received_data_buffers, \* [Clients -> Nat]    the audio chunks buffered for each client
                          \*   since its buffer was last reset
    interrupt_hooks,      \* [Clients -> record]  agent_engine.handle_interrupt of each
                          \*   client context: its calls, and how many of them raised
    user_requests,        \* [Addrs -> Seq(Nat)]  UserRateLimitMiddleware: the times kept
                          \*   for each client address ([] for an address not in the dict)
    clock,                \* time.time(), in ticks of 1/TicksPerSecond of a second
    requests              \* Seq(record)          the requests dispatched so far: their
                          \*   address, the time read for them and what became of them

ttsVars == <<task_list, next_index_to_play, spk, synth, files, njobs>>
routeVars == <<current_conversation_task, pending, ninterrupts>>
limiterVars == <<user_requests, clock, requests>>
handlerVars == <<current_conversation_tasks, client_history, history_uid, group_state,
                 ntriggers, group_interrupts, notified, received_data_buffers, interrupt_hooks>>
vars == <<task_list, next_index_to_play, spk, synth, files, njobs, wire, turns, history,
          current_conversation_task, pending, ninterrupts, current_conversation_tasks,
          client_history, history_uid, group_state, ntriggers, group_interrupts, notified,
          received_data_buffers, interrupt_hooks, user_requests, clock, requests>>

\* ------------------------------------------------------------ TTSTaskManager

NoJob == [pc |-> "idle", mgr |-> 0, turn |-> 0, idx |-> -1, text |-> ""]
\* A turn task. pc is the await it is suspended at, must_cancel is asyncio's pending
\* cancellation request, outcome and result are how the task ended. The code does
\* not read the rest, which records what happened: incs (the increments consumed),
\* cancel_k (how many were consumed when cancel() was first called, -1 if never),
\* cancel_at (the await at which CancelledError was first raised), deliveries (how
\* often it was raised), err (the capability that raised), client (the client
\* whose trigger started the task), msg_type (the type of that trigger), chats
\* (the calls of agent_engine.chat), prompts (the texts these calls were given)
\* and pairs (the (audio, text) pairs consumed).
\* output_type is agent_engine.output_type of the agent the task was given.
NoTurn == [fn |-> "none", pc |-> "none", key |-> "", input |-> "none", full_response |-> "",
           k |-> 0, job |-> 0, must_cancel |-> FALSE, outcome |-> "", result |-> "",
           incs |-> <<>>, cancel_k |-> -1, cancel_at |-> "", deliveries |-> 0, err |-> "",
           client |-> "", chats |-> 0, msg_type |-> "", output_type |-> "", pairs |-> <<>>,
           prompts |-> <<>>]

TTSInit ==
    /\ task_list = [m \in Mgrs |-> <<>>]
    /\ next_index_to_play = [m \in Mgrs |-> 0]
    /\ spk = [j \in Jobs |-> NoJob]
    /\ synth = [j \in Jobs |-> "none"]
    /\ files = {}
    /\ njobs = 0

\* `not sentence_to_speak or not sentence_to_speak.strip()`
IsBlank(s) == s \in {"", " "}

\* `current_task_index = len(self.task_list)`
current_task_index(tl) == Len(tl)

MustWaitNoBarrier(idx, nxt) == FALSE
\* the loop condition of `while current_task_index != self.next_index_to_play`
MustWait(idx, nxt) == idx # nxt

\* TTSTaskManager.clear: the manager's state after it
ClearedState == [tl |-> <<>>, nx |-> 0]

\* the body of the finally block of speak: the manager's state after it
FinallyState(tl, nxt, idx) ==
    IF idx = Len(tl) - 1 THEN ClearedState ELSE [tl |-> tl, nx |-> nxt + 1]

ReleasedOnSuccessOnly(outcome) == outcome = "sent"
\* `finally:` the slot is released however the try block ends; the outcomes are
\* "sent", "send_failed", "synth_failed" and "cancelled"
SlotReleased(outcome) == TRUE

\* the manager of job j after j's speak call has ended with the outcome
AfterFinally(j, outcome) ==
    LET m == spk[j].mgr
        s == IF SlotReleased(outcome)
             THEN FinallyState(task_list[m], next_index_to_play[m], spk[j].idx)
             ELSE [tl |-> task_list[m], nx |-> next_index_to_play[m]]
    IN /\ task_list' = [task_list EXCEPT ![m] = s.tl]
       /\ next_index_to_play' = [next_index_to_play EXCEPT ![m] = s.nx]

AudioMsg(j) == [type |-> "audio", text |-> spk[j].text, job |-> j, turn |-> spk[j].turn]

AbortCaller(j) ==
    IF spk[j].turn = 0
    THEN UNCHANGED turns
    ELSE turns' = [turns EXCEPT ![spk[j].turn].pc = "final_send",
                                ![spk[j].turn].err = "speak"]
\* speak returns: `except Exception` has logged what its try block raised. The
\* turn that awaits speak inline goes on with its loop; a speak call that runs as
\* a task of its own has no caller to resume.
ReturnToCaller(j) ==
    IF spk[j].turn = 0
    THEN UNCHANGED turns
    ELSE turns' = [turns EXCEPT ![spk[j].turn].pc = "chat"]

\* A step of the speak coroutine is a step of the task that runs it: a task whose
\* cancellation was requested runs nothing but the delivery of CancelledError.
MayRun(j) == IF spk[j].turn = 0 THEN TRUE ELSE ~turns[spk[j].turn].must_cancel

\* speak up to its first suspension point, as job j on manager m
SpeakCall(j, m, t, sentence_to_speak, display_text) ==
    LET disp == IF display_text = "" THEN sentence_to_speak ELSE display_text
        idx == current_task_index(task_list[m])
    IN /\ IF IsBlank(sentence_to_speak)
          THEN /\ spk' = [spk EXCEPT ![j] = [pc |-> "returned", mgr |-> m, turn |-> t,
                                             idx |-> -1, text |-> disp]]
               /\ UNCHANGED <<task_list, synth>>
          ELSE /\ task_list' = [task_list EXCEPT ![m] = Append(@, j)]
               /\ synth' = [synth EXCEPT ![j] = "running"]
               /\ spk' = [spk EXCEPT ![j] =
                            [pc |-> IF MustWait(idx, next_index_to_play[m])
                                    THEN "wait" ELSE "synth",
                             mgr |-> m, turn |-> t, idx |-> idx, text |-> disp]]
       /\ UNCHANGED <<next_index_to_play, files>>

\* the tts_task (tts_engine.async_generate_audio) ends: a file, or an error
SynthFinish(j, r) ==
    /\ synth[j] = "running"
    /\ ~(spk[j].pc = "synth" /\ ~MayRun(j))
    /\ synth' = [synth EXCEPT ![j] = r]
    /\ files' = IF r = "ok" THEN files \cup {j} ELSE files
    /\ UNCHANGED <<task_list, next_index_to_play, spk, njobs, wire, turns, history, routeVars, handlerVars, limiterVars>>

\* speak from the point where `await tts_task` has a result
AfterSynth(j) ==
    CASE synth[j] = "ok" ->
            \* payload prepared, now in `await websocket_send`
            /\ spk' = [spk EXCEPT ![j].pc = "send"]
            /\ UNCHANGED <<task_list, next_index_to_play, synth, files, njobs, wire, turns, history, routeVars, handlerVars, limiterVars>>
      [] OTHER ->
            \* the synthesis raised: `except Exception` logs it
            /\ synth[j] = "failed"
            /\ spk' = [spk EXCEPT ![j].pc = "done"]
            /\ AfterFinally(j, "synth_failed")
            /\ ReturnToCaller(j)
            /\ UNCHANGED <<synth, files, njobs, wire, history, routeVars, handlerVars, limiterVars>>

\* the sleep of the barrier loop ends and the loop condition is false
SleepWake(j) ==
    /\ spk[j].pc = "wait"
    /\ MayRun(j)
    /\ ~MustWait(spk[j].idx, next_index_to_play[spk[j].mgr])
    /\ IF synth[j] = "running"
       THEN /\ spk' = [spk EXCEPT ![j].pc = "synth"]
            /\ UNCHANGED <<task_list, next_index_to_play, synth, files, njobs, wire, turns, history, routeVars, handlerVars, limiterVars>>
       ELSE AfterSynth(j)

\* `await tts_task` resumes
SynthResume(j) ==
    /\ spk[j].pc = "synth"
    /\ MayRun(j)
    /\ synth[j] # "running"
    /\ AfterSynth(j)

\* `await websocket_send(...)` ends: delivered, or the inner try block raised
\* (prepare_audio_payload or the send) and the inner except removed the file
SendDone(j, delivered) ==
    /\ spk[j].pc = "send"
    /\ MayRun(j)
    /\ wire' = IF delivered
               THEN [wire EXCEPT ![spk[j].turn] = Append(@, AudioMsg(j))]
               ELSE wire
    /\ files' = files \ {j}
    /\ spk' = [spk EXCEPT ![j].pc = "done"]
    /\ AfterFinally(j, IF delivered THEN "sent" ELSE "send_failed")
    /\ ReturnToCaller(j)
    /\ UNCHANGED <<synth, njobs, history, routeVars, handlerVars, limiterVars>>

\* CancelledError raised in a speak call at its suspension point: it is no
\* Exception, so only the finally block runs
SpeakCancelled(j) ==
    /\ spk[j].pc \in {"wait", "synth", "send"}
    /\ spk' = [spk EXCEPT ![j].pc = "cancelled"]
    /\ synth' = [synth EXCEPT ![j] =
                   IF spk[j].pc = "synth" /\ @ = "running" THEN "cancelled" ELSE @]
    /\ UNCHANGED <<files, njobs>>

\* ------------------------------------------------------------ stand-alone manager
\* Speak calls run as tasks of their own on manager 0.

Submit(s) ==
    /\ njobs < MaxJobs
    /\ njobs' = njobs + 1
    /\ SpeakCall(njobs + 1, 0, 0, s, "")
    /\ UNCHANGED <<wire, turns, history, routeVars, handlerVars, limiterVars>>

CancelJob(j) ==
    /\ spk[j].turn = 0
    /\ SpeakCancelled(j)
    /\ AfterFinally(j, "cancelled")
    /\ UNCHANGED <<wire, turns, history, routeVars, handlerVars, limiterVars>>

JobStep ==
    \E j \in Jobs :
        \/ \E r \in {"ok", "failed"} : SynthFinish(j, r)
        \/ SleepWake(j)
        \/ SynthResume(j)
        \/ \E d \in BOOLEAN : SendDone(j, d)


\* ------------------------------------------------------------ conversation_chain
\* One increment of agent_engine.chat: a sentence, or one that tts_filter empties.
Incr == {"a", "[x]"}
MaxInterrupts == 2    \* interrupt signals received in one run

\* utils.tts_preprocessor.tts_filter: bracketed text is not spoken
tts_filter(text) == IF text = "[x]" THEN "" ELSE text

ControlMsg(t, type, text) == [type |-> type, text |-> text, job |-> 0, turn |-> t]

\* chat_history_manager.store_message: the record is appended. turn and by are
\* not stored: they record which turn the record is about and whether the turn
\* task or an interrupt handler stored it.
store_message(h, role, content, t, by) ==
    Append(h, [role |-> role, content |-> content, turn |-> t, by |-> by])

\* chat_history_manager.modify_latest_message: the latest record takes the new
\* content if it has the role, otherwise nothing changes (the call returns False)
modify_latest_message(h, role, new_content) ==
    IF h # <<>> /\ h[Len(h)].role = role
    THEN [h EXCEPT ![Len(h)].content = new_content]
    ELSE h

Prepend(full_response, sentence) == sentence \o full_response
\* `full_response += sentence`, `full_response += text`
Accumulate(full_response, sentence) == full_response \o sentence

\* the finally block of conversation_chain up to its await: `if full_response:
\* store_message(..., "ai", full_response)`
HistoryAfterChain(t) ==
    IF turns[t].full_response # ""
    THEN store_message(history, "ai", turns[t].full_response, t, "turn")
    ELSE history

\* the state of manager m: its job list and its counter
ManagerState(m) == [tl |-> task_list[m], nx |-> next_index_to_play[m]]

\* TTSTaskManager.clear applied to a manager in state s
clear(s) == ClearedState

Cleared(m) ==
    /\ task_list' = [task_list EXCEPT ![m] = clear(ManagerState(m)).tl]
    /\ next_index_to_play' = [next_index_to_play EXCEPT ![m] = clear(ManagerState(m)).nx]

ResumeAfterCancelledError(pc) == IF pc \in {"chat", "speak"} THEN "chat" ELSE "final_send"
\* `except asyncio.CancelledError:` encloses the whole body, so the turn goes to
\* the finally block from wherever it was
AfterCancelledError(pc) == "final_send"

IsChain(t, pc) == turns[t].fn = "chain" /\ turns[t].pc = pc /\ ~turns[t].must_cancel

\* the task is run for the first time, up to `await websocket_send(chain-start)`
ChainStart(t) ==
    /\ IsChain(t, "new")
    /\ turns' = [turns EXCEPT ![t].pc = "start_send"]
    /\ UNCHANGED <<ttsVars, wire, history, routeVars, handlerVars, limiterVars>>

\* chain-start is sent; then `return ""` for no input, transcription for audio,
\* the human record and the first `async for` step for text
ChainStartSent(t) ==
    /\ IsChain(t, "start_send")
    /\ wire' = [wire EXCEPT ![t] = Append(@, ControlMsg(t, "control", "conversation-chain-start"))]
    /\ turns' = [turns EXCEPT ![t].pc =
                   CASE turns[t].input = "none" -> "final_send"
                     [] turns[t].input = "audio" -> "asr"
                     [] OTHER -> "chat"]
    /\ history' = IF turns[t].input = "text"
                  THEN store_message(history, "human", "text", t, "turn")
                  ELSE history
    /\ IF turns[t].input = "none" THEN Cleared(t) ELSE UNCHANGED <<task_list, next_index_to_play>>
    /\ UNCHANGED <<spk, synth, files, njobs, routeVars, handlerVars, limiterVars>>

\* asr_engine.async_transcribe_np returns, or raises: the finally block runs and
\* its `return` ends the turn normally
ChainAsrDone(t, ok) ==
    /\ IsChain(t, "asr")
    /\ IF ok
       THEN /\ turns' = [turns EXCEPT ![t].pc = "tr_send"]
            /\ UNCHANGED <<task_list, next_index_to_play>>
       ELSE /\ turns' = [turns EXCEPT ![t].pc = "final_send", ![t].err = "transcription"]
            /\ Cleared(t)
    /\ UNCHANGED <<spk, synth, files, njobs, wire, history, routeVars, handlerVars, limiterVars>>

\* user-input-transcription is sent, the human record is stored
ChainTrSent(t) ==
    /\ IsChain(t, "tr_send")
    /\ wire' = [wire EXCEPT ![t] = Append(@, ControlMsg(t, "user-input-transcription", "said"))]
    /\ history' = store_message(history, "human", "said", t, "turn")
    /\ turns' = [turns EXCEPT ![t].pc = "chat"]
    /\ UNCHANGED <<ttsVars, routeVars, handlerVars, limiterVars>>

SpeakNotAwaited(blank) == "chat"
\* `await tts_manager.speak(...)`: the turn is suspended in speak until speak
\* returns; for a blank sentence speak returns at once
AfterSpeakCall(blank) == IF blank THEN "chat" ELSE "speak"

\* the generation sequence yields a sentence: accumulate, filter, speak (awaited
\* inline, so the turn goes on only when speak has returned)
ChainYield(t, sentence) ==
    /\ IsChain(t, "chat")
    /\ turns[t].output_type = "TEXT"
    /\ turns[t].k < MaxIncr
    /\ SpeakCall(JobOf(t, turns[t].k + 1), t, t, tts_filter(sentence), sentence)
    /\ UNCHANGED njobs
    /\ turns' = [turns EXCEPT
                   ![t].full_response = Accumulate(@, sentence),
                   ![t].incs = Append(@, sentence),
                   ![t].k = @ + 1,
                   ![t].job = JobOf(t, turns[t].k + 1),
                   ![t].pc = AfterSpeakCall(IsBlank(tts_filter(sentence)))]
    /\ UNCHANGED <<wire, history, routeVars, handlerVars, limiterVars>>

AlwaysGather(tl) == TRUE
\* `if tts_manager.task_list:` guards the wait for the submitted jobs
MustGather(tl) == tl # <<>>

\* the generation sequence ends: `if tts_manager.task_list: await gather(...)`,
\* then the finally block up to its await
ChainEnd(t) ==
    /\ IsChain(t, "chat")
    /\ IF MustGather(task_list[t])
       THEN /\ turns' = [turns EXCEPT ![t].pc = "gather"]
            /\ UNCHANGED <<task_list, next_index_to_play, history>>
       ELSE /\ turns' = [turns EXCEPT ![t].pc = "final_send"]
            /\ Cleared(t)
            /\ history' = HistoryAfterChain(t)
    /\ UNCHANGED <<spk, synth, files, njobs, wire, routeVars, handlerVars, limiterVars>>

\* An (audio_file_path, text) pair of an agent whose output type is AUDIO: audio
\* files are numbered.
Pairs == {[audio |-> 1, text |-> "a"], [audio |-> 2, text |-> "b"]}

\* the payload prepare_audio_payload makes of a pair
PairMsg(t, pair) == [type |-> "audio", text |-> pair.text, job |-> pair.audio, turn |-> t]

\* `case AgentOutputType.AUDIO:` the generation sequence yields a pair: the text
\* is accumulated, the payload prepared, up to `await websocket_send(...)`
ChainAudioYield(t, pair) ==
    /\ IsChain(t, "chat")
    /\ turns[t].output_type = "AUDIO"
    /\ turns[t].k < MaxIncr
    /\ turns' = [turns EXCEPT
                   ![t].full_response = Accumulate(@, pair.text),
                   ![t].incs = Append(@, pair.text),
                   ![t].pairs = Append(@, pair),
                   ![t].k = @ + 1,
                   ![t].pc = "audio_send"]
    /\ UNCHANGED <<ttsVars, wire, history, routeVars, handlerVars, limiterVars>>

\* that send ends: delivered, and the loop goes on; or it raised (or
\* prepare_audio_payload did), which no `except` takes: the finally block runs
ChainAudioSent(t, delivered) ==
    /\ IsChain(t, "audio_send")
    /\ IF delivered
       THEN /\ wire' = [wire EXCEPT ![t] = Append(@, PairMsg(t, turns[t].pairs[turns[t].k]))]
            /\ turns' = [turns EXCEPT ![t].pc = "chat"]
            /\ UNCHANGED <<task_list, next_index_to_play, history>>
       ELSE /\ turns' = [turns EXCEPT ![t].pc = "final_send", ![t].err = "send"]
            /\ Cleared(t)
            /\ history' = HistoryAfterChain(t)
            /\ UNCHANGED wire
    /\ UNCHANGED <<spk, synth, files, njobs, routeVars, handlerVars, limiterVars>>

\* agent_engine.chat raises: no `except` takes it, the finally block runs
ChainFail(t) ==
    /\ IsChain(t, "chat")
    /\ turns' = [turns EXCEPT ![t].pc = "final_send", ![t].err = "generation"]
    /\ Cleared(t)
    /\ history' = HistoryAfterChain(t)
    /\ UNCHANGED <<spk, synth, files, njobs, wire, routeVars, handlerVars, limiterVars>>

\* chain-end is sent and `return full_response` ends the task
ChainFinalSent(t) ==
    /\ IsChain(t, "final_send")
    /\ wire' = [wire EXCEPT ![t] = Append(@, ControlMsg(t, "control", "conversation-chain-end"))]
    /\ turns' = [turns EXCEPT ![t].pc = "done", ![t].outcome = "returned",
                              ![t].result = turns[t].full_response]
    /\ UNCHANGED <<ttsVars, history, routeVars, handlerVars, limiterVars>>

\* CancelledError is raised in the task at the await it is suspended at.
\*  - never run: the coroutine is not entered, the task ends cancelled
\*  - in the finally block's send: the error leaves the function
\*  - elsewhere: `except asyncio.CancelledError` logs, the finally block runs up
\*    to its await (inside speak, speak's own finally block runs first)
ChainCancelled(t) ==
    /\ turns[t].fn = "chain"
    /\ turns[t].must_cancel
    /\ turns[t].pc # "done"
    /\ IF turns[t].pc \in {"new", "final_send"}
       THEN /\ turns' = [turns EXCEPT ![t].pc = "done", ![t].outcome = "cancelled",
                                      ![t].must_cancel = FALSE,
                                      ![t].deliveries = @ + 1,
                                      ![t].cancel_at = IF @ = "" THEN turns[t].pc ELSE @]
            /\ UNCHANGED <<ttsVars, history>>
       ELSE /\ turns' = [turns EXCEPT ![t].pc = AfterCancelledError(turns[t].pc),
                                      ![t].must_cancel = FALSE,
                                      ![t].deliveries = @ + 1,
                                      ![t].cancel_at = IF @ = "" THEN turns[t].pc ELSE @]
            /\ Cleared(t)
            /\ history' = HistoryAfterChain(t)
            /\ IF turns[t].pc = "speak"
               THEN SpeakCancelled(turns[t].job)
               ELSE UNCHANGED <<spk, synth, files, njobs>>
    /\ UNCHANGED <<wire, routeVars, handlerVars, limiterVars>>

ChainStep ==
    \E t \in Turns :
        \/ ChainStart(t)
        \/ ChainStartSent(t)
        \/ \E ok \in BOOLEAN : ChainAsrDone(t, ok)
        \/ ChainTrSent(t)
        \/ \E s \in Incr : ChainYield(t, s)
        \/ ChainEnd(t)
        \/ ChainFail(t)
        \/ ChainFinalSent(t)
        \/ ChainCancelled(t)

\* conversation_chain with an agent whose output type is AUDIO
AudioChainStep ==
    \E t \in Turns :
        \/ ChainStart(t)
        \/ ChainStartSent(t)
        \/ \E ok \in BOOLEAN : ChainAsrDone(t, ok)
        \/ ChainTrSent(t)
        \/ \E pair \in Pairs : ChainAudioYield(t, pair)
        \/ \E d \in BOOLEAN : ChainAudioSent(t, d)
        \/ ChainEnd(t)
        \/ ChainFail(t)
        \/ ChainFinalSent(t)
        \/ ChainCancelled(t)

\* ------------------------------------------------------------ /client-ws route
NTurns == Cardinality({t \in Turns : turns[t].fn # "none"})

NewTurn(fn, key, input) == [NoTurn EXCEPT !.fn = fn, !.pc = "new", !.key = key, !.input = input]

\* Task.cancel(): a request, delivered when the task is next run; False if done
Cancel(ts, t) ==
    IF t # 0 /\ ts[t].pc # "done"
    THEN [ts EXCEPT ![t].must_cancel = TRUE,
                    ![t].cancel_k = IF @ = -1 THEN ts[t].k ELSE @]
    ELSE ts

\* "mic-audio-end" / "text-input" is received: up to `await send_text(Thinking...)`.
\* The input is a text, the audio buffer, or None for a text-input without text.
RouteTrigger(input) ==
    /\ pending = ""
    /\ NTurns < MaxTurns
    /\ pending' = input
    /\ UNCHANGED <<ttsVars, wire, turns, history, current_conversation_task, ninterrupts,
                   handlerVars, limiterVars>>

\* the branch goes on: the conversation_chain task is created and kept. (The call
\* names llm_engine where conversation_chain takes agent_engine; the route is
\* followed as if the arguments bind.) output_type is the output type of the
\* session's agent.
RouteCreateTask(output_type) ==
    /\ pending # ""
    /\ wire' = [wire EXCEPT ![0] = Append(@, ControlMsg(0, "full-text", "Thinking..."))]
    /\ turns' = [turns EXCEPT ![NTurns + 1] =
                   [NewTurn("chain", "ws", pending) EXCEPT
                      !.msg_type = IF pending = "audio" THEN "mic-audio-end" ELSE "text-input",
                      !.output_type = output_type]]
    /\ current_conversation_task' = NTurns + 1
    /\ pending' = ""
    /\ UNCHANGED <<ttsVars, history, ninterrupts, handlerVars, limiterVars>>

\* "interrupt-signal" is received: the branch has no await
RouteInterrupt(heard_ai_response) ==
    /\ pending = ""
    /\ ninterrupts < MaxInterrupts
    /\ ninterrupts' = ninterrupts + 1
    /\ turns' = Cancel(turns, current_conversation_task)
    /\ history' = store_message(modify_latest_message(history, "ai", heard_ai_response),
                                "system", "[Interrupted by user]", current_conversation_task,
                                "interrupt")
    /\ UNCHANGED <<ttsVars, wire, current_conversation_task, pending, handlerVars, limiterVars>>

\* The messages of the client: its first trigger, and the interrupt signals
\* before, during and after the turn that trigger starts.
RouteStep ==
    \/ \E input \in {"text", "audio", "none"} :
          current_conversation_task = 0 /\ RouteTrigger(input)
    \/ RouteCreateTask("TEXT")
    \/ RouteInterrupt("heard")

\* the same messages in a session whose agent has the output type AUDIO
AudioRouteStep ==
    \/ \E input \in {"text", "audio", "none"} :
          current_conversation_task = 0 /\ RouteTrigger(input)
    \/ RouteCreateTask("AUDIO")
    \/ RouteInterrupt("heard")

\* ------------------------------------------------------------ conversation_handler
Clients == {"c1", "c2", "c3", "c4", "c5"}
Groups == {"g1", "g2"}
Keys == Clients \cup Groups

\* chat_group_manager: c1 and c2 are the members of group g1, c4 and c5 those of
\* group g2, c3 is in no group
members(g) ==
    CASE g = "g1" -> {"c1", "c2"}
      [] g = "g2" -> {"c4", "c5"}
      [] OTHER -> {}
get_client_group(c) ==
    CASE c \in members("g1") -> "g1"
      [] c \in members("g2") -> "g2"
      [] OTHER -> ""

TaskDone(t) == turns[t].pc = "done"

\* no handle_group_interrupt call is suspended for the client
NoCall == [pc |-> "idle", task |-> 0]

MaxChunks == 2    \* audio chunks buffered for one client at most

\* Inputs are strings here: a numpy array of n buffered audio chunks is written
\* with a mark that no text carries, so that `isinstance(x, np.ndarray)` can be
\* told.
RECURSIVE Samples(_)
Samples(n) == IF n = 0 THEN "" ELSE "~" \o Samples(n - 1)
ndarray(n) == "ndarray:" \o Samples(n)
IsNdarray(x) == \E n \in 0..MaxChunks : x = ndarray(n)

\* the texts a "text-input" message carries: "" is also what `data.get("text", "")`
\* gives for a message without text
Texts == {"hi", ""}

\* prepost_hooks.preprocess_user_text: "" for an audio array, else the text
\* behind the coaching prefix
preprocess_user_text(raw) == IF IsNdarray(raw) THEN "" ELSE "P:" \o raw

\* handle_conversation_trigger: the user input of a trigger, before the hooks.
\* (The guard that removes array-like parts leaves the texts of Texts as they
\* are.)
user_input(msg_type, text, buffer) ==
    CASE msg_type = "ai-speak-signal" -> ""
      [] msg_type = "text-input" -> text
      [] OTHER -> ndarray(buffer)

AlwaysStart(key) == TRUE
\* `task_key not in current_conversation_tasks or
\*  current_conversation_tasks[task_key].done()`
MayStartGroup(key) ==
    IF current_conversation_tasks[key] = 0
    THEN TRUE
    ELSE TaskDone(current_conversation_tasks[key])

\* asyncio.create_task(...) kept under the key
CreateTask(fn, key, client, input, msg_type) ==
    /\ turns' = [turns EXCEPT ![NTurns + 1] =
                   [NewTurn(fn, key, input) EXCEPT !.client = client, !.msg_type = msg_type]]
    /\ current_conversation_tasks' = [current_conversation_tasks EXCEPT ![key] = NTurns + 1]

AllBuffersReset(msg_type, client_uid) ==
    IF msg_type = "mic-audio-end"
    THEN [c \in Clients |-> 0]
    ELSE received_data_buffers
\* `received_data_buffers[client_uid] = np.array([])` in the mic-audio-end branch
BuffersAfterTrigger(msg_type, client_uid) ==
    IF msg_type = "mic-audio-end"
    THEN [received_data_buffers EXCEPT ![client_uid] = 0]
    ELSE received_data_buffers

\* "text-input" / "mic-audio-end" / "ai-speak-signal" from a client: the input is
\* taken ("mic-audio-end" takes the client's buffer and resets it), both hooks
\* run, then the group branch or the individual branch. (The messages of one
\* client are handled one after the other: none while a call for it is
\* suspended.)
handle_conversation_trigger(msg_type, text, client_uid) ==
    LET input == preprocess_user_text(preprocess_user_text(
                     user_input(msg_type, text, received_data_buffers[client_uid])))
        group == get_client_group(client_uid)
    IN /\ NTurns < MaxTasks
       /\ group_interrupts[client_uid] = NoCall
       /\ ntriggers' = ntriggers + 1
       /\ received_data_buffers' = BuffersAfterTrigger(msg_type, client_uid)
       \* the full-text of ai-speak-signal is sent before the task is looked up
       /\ wire' = IF msg_type = "ai-speak-signal"
                  THEN [wire EXCEPT ![0] = Append(@, ControlMsg(0, "full-text",
                                                   "AI wants to speak something..."))]
                  ELSE wire
       /\ IF group # "" /\ Cardinality(members(group)) > 1
          THEN IF MayStartGroup(group)
               THEN CreateTask("group", group, client_uid, input, msg_type)
               ELSE UNCHANGED <<turns, current_conversation_tasks>>
          ELSE CreateTask("single", client_uid, client_uid, input, msg_type)
       /\ UNCHANGED <<limiterVars, ttsVars, history, routeVars, client_history, history_uid, group_state,
                      group_interrupts, notified, interrupt_hooks>>

\* agent_engine.handle_interrupt was called, and raised or returned
HookCalled(hook, raises) ==
    [calls |-> hook.calls + 1, raised |-> hook.raised + (IF raises THEN 1 ELSE 0)]

HookErrorLeaves(raises) == ~raises
\* handle_individual_interrupt: `try: ...handle_interrupt(...) except Exception:`
\* logs what the hook raises, so the handler goes on to the records
GoesOnAfterHook(raises) == TRUE

\* "interrupt-signal" from a client that is in no group; raises: the interrupt
\* hook of the client's agent raises
handle_individual_interrupt(client_uid, heard_response, raises) ==
    LET task == current_conversation_tasks[client_uid]
    IN /\ ninterrupts < MaxInterrupts
       /\ ninterrupts' = ninterrupts + 1
       /\ IF task # 0
          THEN /\ turns' = Cancel(turns, task)
               /\ interrupt_hooks' = [interrupt_hooks EXCEPT ![client_uid] =
                                        HookCalled(@, raises)]
               /\ client_history' =
                    IF client_uid \in history_uid /\ GoesOnAfterHook(raises)
                    THEN [client_history EXCEPT ![client_uid] =
                            store_message(store_message(@, "ai", heard_response, task, "interrupt"),
                                          "system", "[Interrupted by user]", task, "interrupt")]
                    ELSE client_history
          ELSE UNCHANGED <<turns, client_history, interrupt_hooks>>
       /\ UNCHANGED <<limiterVars, ttsVars, wire, history, current_conversation_task, pending,
                      current_conversation_tasks, history_uid, group_state, ntriggers,
                      group_interrupts, notified, received_data_buffers>>

TriggerTypes == {"text-input", "mic-audio-end", "ai-speak-signal"}
\* the clients that are in no group of two or more members
Solo == {c \in Clients : get_client_group(c) = ""}

\* a trigger message from one of the clients cs
Trigger(cs) ==
    /\ ntriggers < MaxTurns
    /\ \E c \in cs : \E m \in TriggerTypes : handle_conversation_trigger(m, "hi", c)

\* a trigger message from a client that has no turn running: it has sent no
\* trigger yet, or the task it started last has ended
TriggerWhenIdle(cs) ==
    \E c \in cs :
        /\ ntriggers < MaxTurns
        /\ IF current_conversation_tasks[c] = 0
           THEN TRUE
           ELSE TaskDone(current_conversation_tasks[c])
        /\ \E m \in TriggerTypes : handle_conversation_trigger(m, "hi", c)

\* a text-input from one of the clients cs, one of n at most
TextTrigger(cs, n) ==
    /\ ntriggers < n
    /\ \E c \in cs : handle_conversation_trigger("text-input", "hi", c)

\* an interrupt signal from a client in no group (the interrupt hook returns)
Interrupt == \E c \in Solo : handle_individual_interrupt(c, "heard", FALSE)

\* an interrupt signal from a client in no group; the interrupt hook returns or
\* raises
InterruptWithHook ==
    \E c \in Solo : \E raises \in BOOLEAN : handle_individual_interrupt(c, "heard", raises)

\* "mic-audio-data" from a client: the chunk is appended to the client's buffer
MicAudioData(c) ==
    /\ received_data_buffers[c] < MaxChunks
    /\ received_data_buffers' = [received_data_buffers EXCEPT ![c] = @ + 1]
    /\ UNCHANGED <<limiterVars, ttsVars, wire, turns, history, routeVars, current_conversation_tasks,
                   client_history, history_uid, group_state, ntriggers, group_interrupts,
                   notified, interrupt_hooks>>

\* a trigger message of any type, with or without text, from a client that has
\* no turn running
InputWhenIdle(cs) ==
    \E c \in cs :
        /\ ntriggers < MaxTurns
        /\ IF current_conversation_tasks[c] = 0
           THEN TRUE
           ELSE TaskDone(current_conversation_tasks[c])
        /\ \E m \in TriggerTypes : \E text \in Texts : handle_conversation_trigger(m, text, c)

\* ------------------------------------------------------------ process_single_conversation
\* (The logging call that stands inside the parameter list, line 25, is left out.)
IsSingle(t, pc) == turns[t].fn = "single" /\ turns[t].pc = pc /\ ~turns[t].must_cancel

StoreIfHistory(c, role, content, t) ==
    IF c \in history_uid /\ content # ""
    THEN [client_history EXCEPT ![c] = store_message(@, role, content, t, "turn")]
    ELSE client_history

singleFrame == <<limiterVars, ttsVars, history, routeVars, current_conversation_tasks, history_uid,
                 group_state, ntriggers, group_interrupts, notified, received_data_buffers,
                 interrupt_hooks>>

\* The task has ended: its coroutine frame is gone, the Task keeps how it ended
\* and its result.
EndedTask(t, outcome, result, err) ==
    [NoTurn EXCEPT !.fn = turns[t].fn, !.key = turns[t].key, !.client = turns[t].client,
                   !.msg_type = turns[t].msg_type,
                   !.pc = "done", !.outcome = outcome, !.result = result, !.err = err]

\* conversation_utils.process_user_input: a text is returned as it is, an audio
\* array is transcribed
process_user_input(input) == IF IsNdarray(input) THEN "said" ELSE input

\* the text of the batch input of the first generation: the text of
\* process_user_input, wrapped by preprocess_user_text. (The guard against
\* array-like text leaves the texts of Texts, wrapped or not, as they are.)
FirstPrompt(input) == preprocess_user_text(process_user_input(input))
\* the text of the batch input of process_agent_response: the text of
\* process_user_input
SecondPrompt(input) == process_user_input(input)

\* the task is run for the first time: the input is a text, so process_user_input
\* returns it and the first `async for` over agent_engine.chat is entered
SingleStart(t) ==
    /\ IsSingle(t, "new")
    /\ turns' = [turns EXCEPT ![t].pc = "pre_chat", ![t].chats = @ + 1,
                              ![t].prompts = Append(@, FirstPrompt(turns[t].input))]
    /\ UNCHANGED <<wire, client_history, singleFrame>>

\* that generation ends, or raises: outside the try block, so the error leaves
\* the task and no error message is sent
SinglePreChatDone(t, ok) ==
    /\ IsSingle(t, "pre_chat")
    /\ turns' = IF ok
                THEN [turns EXCEPT ![t].pc = "pre_send"]
                ELSE [turns EXCEPT ![t] = EndedTask(t, "failed", "", "generation")]
    /\ UNCHANGED <<wire, client_history, singleFrame>>

\* the "ai-text" payload is sent; then `await send_conversation_start_signals`
SinglePreSent(t) ==
    /\ IsSingle(t, "pre_send")
    /\ wire' = [wire EXCEPT ![t] = Append(@, ControlMsg(t, "ai-text", "post"))]
    /\ turns' = [turns EXCEPT ![t].pc = "start_signals"]
    /\ UNCHANGED <<client_history, singleFrame>>

\* the start signals are sent, the human record is stored and
\* process_agent_response enters its `async for`
SingleStartSignalsSent(t) ==
    /\ IsSingle(t, "start_signals")
    /\ wire' = [wire EXCEPT ![t] = Append(@, ControlMsg(t, "control", "conversation-chain-start"))]
    /\ client_history' =
         IF turns[t].key \in history_uid
         THEN [client_history EXCEPT ![turns[t].key] =
                 store_message(@, "human", turns[t].input, t, "turn")]
         ELSE client_history
    /\ turns' = [turns EXCEPT ![t].pc = "chat", ![t].chats = @ + 1,
                              ![t].prompts = Append(@, SecondPrompt(turns[t].input))]
    /\ UNCHANGED singleFrame

\* the generation sequence yields an output: `await process_agent_output(...)`
SingleYield(t, output) ==
    /\ IsSingle(t, "chat")
    /\ turns[t].k < MaxIncr
    /\ turns' = [turns EXCEPT ![t].pc = "output", ![t].k = @ + 1,
                              ![t].incs = Append(@, output)]
    /\ UNCHANGED <<wire, client_history, singleFrame>>

\* process_agent_output returns the text of the output: `full_response += response_part`
SingleOutputDone(t) ==
    /\ IsSingle(t, "output")
    /\ turns' = [turns EXCEPT ![t].pc = "chat",
                              ![t].full_response = Accumulate(@, turns[t].incs[turns[t].k])]
    /\ UNCHANGED <<wire, client_history, singleFrame>>

\* the generation sequence ends: `await finalize_conversation_turn(...)`
SingleChatEnd(t) ==
    /\ IsSingle(t, "chat")
    /\ turns' = [turns EXCEPT ![t].pc = "finalize"]
    /\ UNCHANGED <<wire, client_history, singleFrame>>

\* agent_engine.chat or process_agent_output raises: `except Exception` sends the
\* error message
SingleFail(t) ==
    /\ turns[t].fn = "single" /\ turns[t].pc \in {"chat", "output"} /\ ~turns[t].must_cancel
    /\ turns' = [turns EXCEPT ![t].pc = "err_send", ![t].err = "generation"]
    /\ UNCHANGED <<wire, client_history, singleFrame>>

\* the error message is sent and the error is raised again
SingleErrSent(t) ==
    /\ IsSingle(t, "err_send")
    /\ wire' = [wire EXCEPT ![t] = Append(@, ControlMsg(t, "error", "Conversation error"))]
    /\ turns' = [turns EXCEPT ![t] = EndedTask(t, "failed", "", turns[t].err)]
    /\ UNCHANGED <<client_history, singleFrame>>

\* the turn is finalized: the AI record is stored and full_response returned
SingleFinalized(t) ==
    /\ IsSingle(t, "finalize")
    /\ wire' = [wire EXCEPT ![t] = Append(@, ControlMsg(t, "control", "conversation-chain-end"))]
    /\ client_history' = StoreIfHistory(turns[t].key, "ai", turns[t].full_response, t)
    /\ turns' = [turns EXCEPT ![t] = EndedTask(t, "returned", turns[t].full_response, "")]
    /\ UNCHANGED singleFrame

StoredOnCancel(t) == StoreIfHistory(turns[t].key, "ai", turns[t].full_response, t)
\* `except asyncio.CancelledError: ... raise`: nothing is stored
HistoryAfterSingleCancel(t) == client_history

ErrorOnCancel(t) == [wire EXCEPT ![t] = Append(@, ControlMsg(t, "error", "Conversation error"))]
\* CancelledError is no Exception: `except Exception`, which sends the error
\* message, does not take it
WireAfterSingleCancel(t) == wire

\* CancelledError is raised in the task at the await it is suspended at: in the
\* first block it leaves the function, in the try block it is logged and raised
\* again; the task ends cancelled
SingleCancelled(t) ==
    /\ turns[t].fn = "single"
    /\ turns[t].must_cancel
    /\ turns[t].pc # "done"
    /\ turns' = [turns EXCEPT ![t] = EndedTask(t, "cancelled", "", "")]
    /\ client_history' = HistoryAfterSingleCancel(t)
    /\ wire' = WireAfterSingleCancel(t)
    /\ UNCHANGED singleFrame

SingleStep ==
    \E t \in Turns :
        \/ SingleStart(t)
        \/ \E ok \in BOOLEAN : SinglePreChatDone(t, ok)
        \/ SinglePreSent(t)
        \/ SingleStartSignalsSent(t)
        \/ SingleYield(t, "a")
        \/ SingleOutputDone(t)
        \/ SingleChatEnd(t)
        \/ SingleFail(t)
        \/ SingleErrSent(t)
        \/ SingleFinalized(t)
        \/ SingleCancelled(t)

\* ------------------------------------------------------------ process_group_conversation
\* the group turn starts: the initiator is the current speaker
GroupStart(t) ==
    /\ turns[t].fn = "group" /\ turns[t].pc = "new" /\ ~turns[t].must_cancel
    /\ turns' = [turns EXCEPT ![t].pc = "run"]
    /\ group_state' = [group_state EXCEPT ![turns[t].key] = turns[t].client]
    /\ UNCHANGED <<limiterVars, ttsVars, wire, history, routeVars, current_conversation_tasks,
                   client_history, history_uid, ntriggers, group_interrupts, notified,
                   received_data_buffers, interrupt_hooks>>

\* the group turn ends and its state is removed
GroupEnd(t) ==
    /\ turns[t].fn = "group" /\ turns[t].pc = "run" /\ ~turns[t].must_cancel
    /\ turns' = [turns EXCEPT ![t] = EndedTask(t, "returned", "", "")]
    /\ group_state' = [group_state EXCEPT ![turns[t].key] = ""]
    /\ UNCHANGED <<limiterVars, ttsVars, wire, history, routeVars, current_conversation_tasks,
                   client_history, history_uid, ntriggers, group_interrupts, notified,
                   received_data_buffers, interrupt_hooks>>

GroupStep == \E t \in Turns : GroupStart(t) \/ GroupEnd(t)

\* CancelledError is raised in the group turn: it ends cancelled and its state
\* is removed
GroupCancelled(t) ==
    /\ turns[t].fn = "group" /\ turns[t].must_cancel /\ turns[t].pc # "done"
    /\ turns' = [turns EXCEPT ![t] = EndedTask(t, "cancelled", "", "")]
    /\ group_state' = [group_state EXCEPT ![turns[t].key] = ""]
    /\ UNCHANGED <<limiterVars, ttsVars, wire, history, routeVars, current_conversation_tasks,
                   client_history, history_uid, ntriggers, group_interrupts, notified,
                   received_data_buffers, interrupt_hooks>>

\* ------------------------------------------------------------ handle_group_interrupt
\* The call made for the interrupt signal of client c, a member of the group.

IsRegistered(task) == task # 0
\* `if not task or task.done(): return` goes on for a task that is running
IsRunning(task) == IF task = 0 THEN FALSE ELSE ~TaskDone(task)

AnyClient(m, group_id) == TRUE
\* `for member_uid in group.members: if member_uid in client_contexts:` (every
\* client has a context)
MemberOf(m, group_id) == m \in members(group_id)

NoClient(m, group_id) == FALSE
\* the receivers of the broadcast: `list(group.members)`
Receives(m, group_id) == m \in members(group_id)

\* up to `await task`: `if not task or task.done(): return`, the speaker's
\* context is looked up, the task is cancelled
handle_group_interrupt(group_id, heard_response, c) ==
    LET task == current_conversation_tasks[group_id]
    IN /\ group_interrupts[c].pc = "idle"
       /\ ninterrupts < MaxInterrupts
       /\ ninterrupts' = ninterrupts + 1
       /\ IF IsRunning(task)
          THEN /\ turns' = Cancel(turns, task)
               /\ group_interrupts' = [group_interrupts EXCEPT ![c] =
                                         [pc |-> "await", task |-> task]]
          ELSE UNCHANGED <<turns, group_interrupts>>
       /\ UNCHANGED <<limiterVars, ttsVars, wire, history, current_conversation_task, pending,
                      current_conversation_tasks, client_history, history_uid, group_state,
                      ntriggers, notified, received_data_buffers, interrupt_hooks>>

\* the loop over group.members: the interrupt hook, the AI record with the heard
\* text and the marker for every member (store_message stores for a context
\* that has a history id). The three calls stand in one try block: for a member
\* whose hook raises (raising) the error is logged and nothing is stored.
StoredMarkerOnly(group_id, heard_response, task, raising) ==
    [m \in Clients |->
        IF MemberOf(m, group_id) /\ m \in history_uid /\ m \notin raising
        THEN store_message(client_history[m], "system", "[Interrupted by user]", task,
                           "interrupt")
        ELSE client_history[m]]
StoredForMembers(group_id, heard_response, task, raising) ==
    [m \in Clients |->
        IF MemberOf(m, group_id) /\ m \in history_uid /\ m \notin raising
        THEN store_message(store_message(client_history[m], "ai", heard_response, task,
                                         "interrupt"),
                           "system", "[Interrupted by user]", task, "interrupt")
        ELSE client_history[m]]

\* the interrupt hooks after the loop: called once for every member
HooksAfterLoop(group_id, raising) ==
    [m \in Clients |->
        IF MemberOf(m, group_id)
        THEN HookCalled(interrupt_hooks[m], m \in raising)
        ELSE interrupt_hooks[m]]

RegistryKept(group_id) == current_conversation_tasks
\* `current_conversation_tasks.pop(group_id, None)`
RegistryAfterInterrupt(group_id) == [current_conversation_tasks EXCEPT ![group_id] = 0]

\* `await task` returns: CancelledError is caught, any other error of the task
\* leaves the handler. Then the entry is popped, the state removed, the records
\* stored, up to `await broadcast_to_group(...)`. raising: the members whose
\* interrupt hook raises.
GroupInterruptResume(group_id, heard_response, c, raising) ==
    LET task == group_interrupts[c].task
    IN /\ group_interrupts[c].pc = "await"
       /\ TaskDone(task)
       /\ IF turns[task].outcome = "failed"
          THEN /\ group_interrupts' = [group_interrupts EXCEPT ![c] = NoCall]
               /\ UNCHANGED <<current_conversation_tasks, group_state, client_history,
                              interrupt_hooks>>
          ELSE /\ group_interrupts' = [group_interrupts EXCEPT ![c].pc = "broadcast"]
               /\ current_conversation_tasks' = RegistryAfterInterrupt(group_id)
               /\ group_state' = [group_state EXCEPT ![group_id] = ""]
               /\ client_history' = StoredForMembers(group_id, heard_response, task, raising)
               /\ interrupt_hooks' = HooksAfterLoop(group_id, raising)
       /\ UNCHANGED <<limiterVars, ttsVars, wire, turns, history, routeVars, history_uid, ntriggers,
                      notified, received_data_buffers>>

\* broadcast_to_group has sent the notification to list(group.members)
GroupInterruptBroadcast(group_id, c) ==
    /\ group_interrupts[c].pc = "broadcast"
    /\ group_interrupts' = [group_interrupts EXCEPT ![c] = NoCall]
    /\ notified' = [m \in Clients |->
                      IF Receives(m, group_id) THEN notified[m] + 1 ELSE notified[m]]
    /\ UNCHANGED <<limiterVars, ttsVars, wire, turns, history, routeVars, current_conversation_tasks,
                   client_history, history_uid, group_state, ntriggers, received_data_buffers,
                   interrupt_hooks>>

\* an interrupt signal from a member of a group, and the steps of the call (the
\* interrupt hooks return)
GroupInterruptStep ==
    \E c \in Clients \ Solo :
        \/ handle_group_interrupt(get_client_group(c), "heard", c)
        \/ GroupInterruptResume(get_client_group(c), "heard", c, {})
        \/ GroupInterruptBroadcast(get_client_group(c), c)

\* the same for the members cs; the interrupt hook of any member returns or
\* raises
GroupInterruptWithHooks(cs) ==
    \E c \in cs :
        \/ handle_group_interrupt(get_client_group(c), "heard", c)
        \/ \E raising \in SUBSET members(get_client_group(c)) :
              GroupInterruptResume(get_client_group(c), "heard", c, raising)
        \/ GroupInterruptBroadcast(get_client_group(c), c)

\* ------------------------------------------------------------ UserRateLimitMiddleware

\* add_middleware(UserRateLimitMiddleware, max_requests=3, period=1): period is in seconds
max_requests == 3
period == 1
TicksPerSecond == 2   \* the resolution of the clock: ticks in a second
MaxClock == 3         \* the clock stops at this tick
MaxRequests == 6      \* requests dispatched at most
\* request.client.host
Addrs == {"ip1", "ip2"}

\* `now - t < self.period`, times in ticks
Within(now, t) == now - t < period * TicksPerSecond

\* reqs = [t for t in reqs if now - t < self.period]
Recent(reqs, now) == SelectSeq(reqs, LAMBDA t : Within(now, t))

\* A limiter that also records the requests it rejects.
Recorded(stored, reqs, now) == Append(reqs, now)

\* The raise comes before the append and the assignment: the dict keeps what it held.
Kept(stored, reqs, now) == stored

\* dispatch has no await before call_next: it reads the clock, filters the times of
\* the address, and either raises HTTPException(429) or records the time and calls
\* call_next.
dispatch(user_id) ==
    /\ Len(requests) < MaxRequests
    /\ LET now == clock
           reqs == Recent(user_requests[user_id], now)
       IN  IF Len(reqs) >= max_requests
           THEN /\ user_requests' = [user_requests EXCEPT ![user_id] = Kept(@, reqs, now)]
                /\ requests' = Append(requests,
                       [user_id |-> user_id, at |-> now, outcome |-> "HTTPException 429"])
           ELSE /\ user_requests' = [user_requests EXCEPT ![user_id] = Append(reqs, now)]
                /\ requests' = Append(requests,
                       [user_id |-> user_id, at |-> now, outcome |-> "call_next"])
    /\ UNCHANGED <<clock, ttsVars, wire, turns, history, routeVars, handlerVars>>

\* time.time() between two requests: it does not go back
Tick ==
    /\ clock < MaxClock
    /\ clock' = clock + 1
    /\ UNCHANGED <<user_requests, requests, ttsVars, wire, turns, history, routeVars,
                   handlerVars>>

Init ==
    /\ TTSInit
    /\ wire = [t \in Mgrs |-> <<>>]
    /\ turns = [t \in Turns |-> NoTurn]
    /\ history = <<>>
    /\ current_conversation_task = 0
    /\ pending = ""
    /\ ninterrupts = 0
    /\ current_conversation_tasks = [key \in Keys |-> 0]
    /\ client_history = [c \in Clients |-> <<>>]
    /\ history_uid \in {Clients, Clients \ {"c3"}}
    /\ group_state = [g \in Groups |-> ""]
    /\ ntriggers = 0
    /\ group_interrupts = [c \in Clients |-> NoCall]
    /\ notified = [c \in Clients |-> 0]
    /\ received_data_buffers = [c \in Clients |-> 0]
    /\ interrupt_hooks = [c \in Clients |-> [calls |-> 0, raised |-> 0]]
    /\ user_requests = [a \in Addrs |-> <<>>]
    /\ clock = 0
    /\ requests = <<>>

TTSNext ==
    \/ \E s \in Sentences : Submit(s)
    \/ JobStep

TTSCancelNext ==
    \/ TTSNext
    \/ \E j \in Jobs : CancelJob(j)

\* speak awaited inline: the sleep of the barrier loop is never entered
InlineJobStep ==
    \E j \in Jobs :
        \/ \E r \in {"ok", "failed"} : SynthFinish(j, r)
        \/ SynthResume(j)
        \/ \E d \in BOOLEAN : SendDone(j, d)

ChainNext ==
    \/ RouteStep
    \/ ChainStep
    \/ InlineJobStep

AudioNext ==
    \/ AudioRouteStep
    \/ AudioChainStep

\* the /client-ws route of a session whose agent has the output type AUDIO
LimiterNext ==
    \/ \E user_id \in Addrs : dispatch(user_id)
    \/ Tick

SpecLimiter == Init /\ [][LimiterNext]_vars

SpecAudio == Init /\ [][AudioNext]_vars

\* the /client-ws route with its conversation_chain tasks
SpecChain == Init /\ [][ChainNext]_vars
\* the event loop runs every ready task; capabilities and sends end
FairChain == SpecChain /\ WF_vars(ChainStep) /\ WF_vars(InlineJobStep) /\ WF_vars(RouteCreateTask("TEXT"))

GroupInterruptNext ==
    \/ TextTrigger(Clients \ Solo, MaxTurns)
    \/ GroupStep
    \/ \E t \in Turns : GroupCancelled(t)
    \/ GroupInterruptStep

OneGroupNext ==
    \/ TextTrigger(members("g1"), MaxGroupTurns)
    \/ GroupStep
    \/ \E t \in Turns : GroupCancelled(t)
    \/ GroupInterruptStep

HandlerNext ==
    \/ Trigger(Clients)
    \/ Interrupt
    \/ SingleStep
    \/ GroupStep

GroupNext ==
    \/ Trigger(Clients \ Solo)
    \/ GroupStep

SoloNext ==
    \/ TriggerWhenIdle(Solo)
    \/ Interrupt
    \/ SingleStep

\* a text-input or a mic-audio-end from one of the clients cs
SpokenOrTyped(cs) ==
    /\ ntriggers < MaxTurns
    /\ \E c \in cs : \E m \in {"text-input", "mic-audio-end"} :
          handle_conversation_trigger(m, "hi", c)

\* the client in no group and a member of group g1 buffer audio, they and the
\* other member send triggers, the client in no group interrupts; the turn tasks
\* start, and end when cancelled
KeysNext ==
    \/ \E c \in {"c1", "c3"} : MicAudioData(c)
    \/ SpokenOrTyped(Solo \cup members("g1"))
    \/ Interrupt
    \/ \E t \in Turns : SingleStart(t) \/ SingleCancelled(t) \/ GroupStart(t)

InputNext ==
    \/ \E c \in Solo : MicAudioData(c)
    \/ InputWhenIdle(Solo)
    \/ Interrupt
    \/ SingleStep

\* the client in no group and the members of group g1 start turns with text
\* inputs and interrupt them; the interrupt hooks return or raise
HooksNext ==
    \/ TextTrigger(Solo \cup members("g1"), MaxTurns)
    \/ InterruptWithHook
    \/ GroupInterruptWithHooks(members("g1"))
    \/ \E t \in Turns : SingleStart(t) \/ SingleCancelled(t)
    \/ \E t \in Turns : GroupStart(t) \/ GroupEnd(t) \/ GroupCancelled(t)

\* the interrupt handlers with interrupt hooks that may raise
SpecHooks == Init /\ [][HooksNext]_vars

\* the handlers of conversation_handler.py with their turn tasks
SpecHandler == Init /\ [][HandlerNext]_vars
\* the messages of the members of a group only
SpecGroup == Init /\ [][GroupNext]_vars
\* the messages of the clients in no group only, each client with one turn at a
\* time
SpecSolo == Init /\ [][SoloNext]_vars

\* the clients in no group buffer audio, send triggers of every kind, each
\* client with one turn at a time, and interrupt
SpecInput == Init /\ [][InputNext]_vars

\* two session keys, a client and a group, with their buffers and triggers, and
\* the interrupts of the client
SpecKeys == Init /\ [][KeysNext]_vars

\* the members of the groups start group turns with text inputs and interrupt
\* them
SpecGroupInterrupt == Init /\ [][GroupInterruptNext]_vars
\* the members of one group start group turns, one after the other, and the
\* members of the groups interrupt
SpecOneGroup == Init /\ [][OneGroupNext]_vars

\* the stand-alone manager, no cancellation
SpecTTS == Init /\ [][TTSNext]_vars
\* the event loop runs every ready task, and a synthesis ends
FairTTS == SpecTTS /\ WF_vars(JobStep)
\* the stand-alone manager with cancellation of speak calls
SpecTTSCancel == Init /\ [][TTSCancelNext]_vars
FairTTSCancel == SpecTTSCancel /\ WF_vars(JobStep)

\* ------------------------------------------------------------ properties: TTSTaskManager

Live(j) == spk[j].pc \in {"wait", "synth", "send"}
Ended(j) == spk[j].pc \in {"done", "cancelled"}
\* the jobs whose audio payload was delivered for turn t, in the order of delivery
RECURSIVE AudioJobs(_)
AudioJobs(w) ==
    IF w = <<>> THEN <<>>
    ELSE IF Head(w).type = "audio" THEN <<Head(w).job>> \o AudioJobs(Tail(w))
         ELSE AudioJobs(Tail(w))
Sent(j) == \E p \in DOMAIN wire[spk[j].turn] :
              wire[spk[j].turn][p].type = "audio" /\ wire[spk[j].turn][p].job = j
Increasing(q) == \A a, b \in DOMAIN q : a < b => q[a] < q[b]

\* Job ids are given in the order of the speak calls, so submission order is the
\* order of the ids.
InSubmissionOrder == Increasing(AudioJobs(wire[0]))

\* C1: on one TTSTaskManager the audio payloads reach the client in the order in
\* which their speak jobs were submitted, whatever the order in which the
\* synthesis operations complete.
C1_EmissionInSubmissionOrder == InSubmissionOrder

\* C1 witness: job 1 was sent, job 3 has finished its synthesis before job 2 and
\* waits for its slot.
C1_Witness ==
    /\ Sent(1)
    /\ synth[2] = "running"
    /\ synth[3] = "ok" /\ spk[3].pc = "wait"
    /\ spk[2].idx = 1 /\ spk[3].idx = 2

\* C4: a job whose synthesis raised sends nothing, the payloads that are sent are
\* in submission order, and every submitted job ends (so the wait for the
\* submitted jobs ends), also the jobs submitted after the failed one.
C4_FailureKeepsBarrierLive ==
    /\ [](\A j \in Jobs : synth[j] = "failed" => ~Sent(j))
    /\ []InSubmissionOrder
    /\ \A j \in Jobs : [](Live(j) => <>Ended(j))

\* C4 witness: job 1 failed in synthesis and sent nothing, job 2, submitted
\* while job 1 was in flight, was sent after it.
C4_Witness ==
    /\ synth[1] = "failed" /\ spk[1].pc = "done" /\ ~Sent(1)
    /\ spk[2].idx = 1 /\ spk[2].pc = "done" /\ Sent(2)

\* A job can still reach its slot: it is past the barrier, or some job of its
\* manager is past the barrier or at the open slot and will release it.
CanReachSlot(j) ==
    \/ spk[j].pc # "wait"
    \/ \E i \in Jobs :
          /\ spk[i].mgr = spk[j].mgr
          /\ \/ spk[i].pc \in {"synth", "send"}
             \/ spk[i].pc = "wait" /\ ~MustWait(spk[i].idx, next_index_to_play[spk[i].mgr])

\* C5: with speak calls cancelled at their suspension points, no job waits
\* forever for its emission slot.
C5_NoJobWaitsForever == \A j \in Jobs : CanReachSlot(j)

\* ------------------------------------------------------------ properties: conversation_chain

RECURSIVE Concat(_)
Concat(q) == IF q = <<>> THEN "" ELSE Head(q) \o Concat(Tail(q))

Marker(r) == r.role = "system" /\ r.content = "[Interrupted by user]"
\* the positions of the AI-role records the turn task t stored itself
AiStoredByTurn(h, t) ==
    {p \in DOMAIN h : h[p].role = "ai" /\ h[p].turn = t /\ h[p].by = "turn"}
CancelRequested(t) == turns[t].cancel_k # -1
TurnJobs(t) == {JobOf(t, i) : i \in 1..MaxIncr}

\* C7: in the /client-ws route the marker record of an interrupt is stored after
\* the AI-role record of the interrupted turn, and no AI-role record of that turn
\* is stored after the marker.
C7_MarkerAfterAiRecord ==
    \A p \in DOMAIN history :
        (Marker(history[p]) /\ history[p].turn # 0 /\ turns[history[p].turn].deliveries > 0)
            => \A q \in DOMAIN history :
                  (history[q].role = "ai" /\ history[q].turn = history[p].turn) => q < p

\* C8: once a turn task has been cancelled it stores no AI-role record itself.
C8_NoAiStoreAfterCancel ==
    [][\A t \in Turns :
          CancelRequested(t) => AiStoredByTurn(history', t) = AiStoredByTurn(history, t)]_vars

\* After cancel() the turn consumes no increment, makes no speak call and no
\* audio payload of it is delivered.
NoProgressAfterCancel(t) ==
    CancelRequested(t) =>
        /\ turns'[t].k = turns[t].k
        /\ turns'[t].incs = turns[t].incs
        /\ AudioJobs(wire'[t]) = AudioJobs(wire[t])
        /\ \A j \in TurnJobs(t) : spk[j].pc = "idle" => spk'[j].pc = "idle"

\* the payloads delivered are those of the first n sentences, for some n
DeliveredIsPrefix(t) ==
    \E n \in 0..turns[t].k :
        AudioJobs(wire[t]) = [i \in 1..n |-> JobOf(t, i)]

\* the payloads delivered are payloads of consumed sentences, in their order
DeliveredInOrder(t) ==
    /\ Increasing(AudioJobs(wire[t]))
    /\ \A p \in DOMAIN AudioJobs(wire[t]) :
          \E i \in 1..turns[t].k : AudioJobs(wire[t])[p] = JobOf(t, i)

\* C9 as stated: nothing more is consumed, submitted or sent after cancellation,
\* and the payloads sent are a prefix of the sentences consumed.
C9_Original ==
    /\ [][\A t \in Turns : NoProgressAfterCancel(t)]_vars
    /\ [](\A t \in Turns : CancelRequested(t) => DeliveredIsPrefix(t))

\* C9 amended: nothing more is consumed, submitted or sent after cancellation,
\* and the payloads sent are, in order, payloads of sentences consumed (a
\* sentence that is blank after filtering or whose synthesis or send failed
\* leaves a gap).
C9_NoProgressAfterCancel ==
    /\ [][\A t \in Turns : NoProgressAfterCancel(t)]_vars
    /\ [](\A t \in Turns : CancelRequested(t) => DeliveredInOrder(t))

\* C9 witness: the turn was cancelled with two sentences consumed, the first one
\* delivered, and has ended.
C9_Witness ==
    /\ turns[1].fn = "chain" /\ turns[1].pc = "done"
    /\ turns[1].cancel_k = 2 /\ turns[1].deliveries = 1
    /\ AudioJobs(wire[1]) = <<JobOf(1, 1)>>

\* ------------------------------------------------------------ properties: conversation_handler

\* the tasks started under a key that have not ended
LiveTurns(key) == {t \in Turns : turns[t].fn # "none" /\ turns[t].key = key /\ ~TaskDone(t)}
IsActive(t) == IF t = 0 THEN FALSE ELSE ~TaskDone(t)
\* cancel() was called on the task, or the task has ended cancelled
Interrupted(t) == CancelRequested(t) \/ turns[t].outcome = "cancelled"

\* C2: for a client in no group at most one turn task that has not ended exists,
\* whatever triggers arrive while its previous turn is running.
C2_AtMostOneTurnPerClient == \A c \in Solo : Cardinality(LiveTurns(c)) <= 1

\* C3: for a group of two or more members at most one group turn is running and
\* the current speaker is its initiator; a trigger that arrives while the
\* registered task has not ended starts no task and leaves the task and the
\* registry entry as they are.
C3_OneGroupTurnAtATime ==
    /\ [](\A g \in Groups :
            /\ Cardinality(LiveTurns(g)) <= 1
            /\ group_state[g] # "" =>
                  \E t \in LiveTurns(g) : turns[t].client = group_state[g])
    /\ [][\A g \in Groups :
            LET t == current_conversation_tasks[g]
            IN (IsActive(t) /\ ntriggers' # ntriggers) =>
                  /\ current_conversation_tasks'[g] = t
                  /\ turns'[t] = turns[t]
                  /\ \A u \in Turns : turns[u].fn = "none" => turns'[u].key # g]_vars

\* C3 witness: the second trigger of the group arrived while the first group turn
\* was running and started nothing.
C3_Witness ==
    /\ ntriggers = 2
    /\ NTurns = 1
    /\ turns[1].fn = "group" /\ turns[1].pc = "run"
    /\ current_conversation_tasks["g1"] = 1

\* the two records handle_individual_interrupt stores for the task it interrupts
InterruptPair(t) ==
    << [role |-> "ai", content |-> "heard", turn |-> t, by |-> "interrupt"],
       [role |-> "system", content |-> "[Interrupted by user]", turn |-> t,
        by |-> "interrupt"] >>

\* C6: an interrupt of a client in no group whose turn is running and whose
\* context has a history id appends to that history exactly the AI-role record
\* with the heard text and then the marker record; a turn that was interrupted
\* has stored no AI-role record itself.
C6_InterruptStoresHeardThenMarker ==
    /\ [][\A c \in Solo :
            LET t == current_conversation_tasks[c]
            IN (ninterrupts' # ninterrupts /\ c \in history_uid /\ IsActive(t)) =>
                  client_history'[c] = client_history[c] \o InterruptPair(t)]_vars
    /\ [](\A t \in Turns :
            (turns[t].fn = "single" /\ Interrupted(t)) =>
                AiStoredByTurn(client_history[turns[t].key], t) = {})

\* C6 witness: the turn of c3 had accumulated the text of an increment when the
\* interrupt came: the history ends with the heard text and the marker, and the
\* cancellation is about to be delivered to the turn.
C6_Witness ==
    /\ turns[1].fn = "single" /\ turns[1].must_cancel
    /\ turns[1].full_response = "a"
    /\ Len(client_history["c3"]) = 3
    /\ client_history["c3"][1].role = "human"
    /\ SubSeq(client_history["c3"], 2, 3) = InterruptPair(1)

\* C13: an interrupt signal of a client in no group that has no running turn (no
\* task registered, or the registered task has ended) stores nothing in the
\* client's history.
C13_InterruptWithoutTurnStoresNothing ==
    [][\A c \in Solo :
          (ninterrupts' # ninterrupts /\ ~IsActive(current_conversation_tasks[c])) =>
              client_history'[c] = client_history[c]]_vars

\* C14: when handle_individual_interrupt stores the heard text and the marker
\* for a task that was running, the task has ended by then.
C14_TaskEndedBeforeRecords ==
    [][\A c \in Solo :
          LET t == current_conversation_tasks[c]
          IN (ninterrupts' # ninterrupts /\ IsActive(t)
                /\ client_history'[c] # client_history[c]) =>
                 turns'[t].pc = "done"]_vars

\* ------------------------------------------------------------ properties: failures

\* the notifications of type "error" among the messages w
ErrorCount(w) == Cardinality({p \in DOMAIN w : w[p].type = "error"})

\* C15: a turn of process_single_conversation that ended because the
\* transcription or the generation raised has sent exactly one notification of
\* type "error".
C15_OneErrorNotificationPerFailedTurn ==
    \A t \in Turns :
        (turns[t].fn = "single" /\ turns[t].outcome = "failed") => ErrorCount(wire[t]) = 1

\* C16: a turn in which the transcription or the generation raised, and which
\* was not cancelled, ends failed: its task does not return a result.
C16_FailureReachesCaller ==
    \A t \in Turns :
        (TaskDone(t) /\ turns[t].err # "" /\ turns[t].outcome # "cancelled") =>
            turns[t].outcome = "failed"

\* C17: a turn that ended cancelled has sent no notification of type "error".
C17_NoErrorNotificationOnCancel ==
    \A t \in Turns : turns[t].outcome = "cancelled" => ErrorCount(wire[t]) = 0

\* C17 witness: the turn of c3 was cancelled inside the try block, after its
\* start signal was sent.
C17_Witness ==
    /\ turns[1].fn = "single" /\ turns[1].outcome = "cancelled"
    /\ Len(wire[1]) = 2 /\ wire[1][2].text = "conversation-chain-start"

\* C18: a turn whose generation raised after at least one increment was
\* consumed has stored no AI-role record.
C18_NoAiRecordAfterGenerationFailure ==
    \A t \in Turns :
        (turns[t].err = "generation" /\ turns[t].k >= 1) => AiStoredByTurn(history, t) = {}

\* the speak call of job j ended because its synthesis raised
SynthFailed(j) == spk[j].pc = "done" /\ synth[j] = "failed"
\* the speak call of job j ended because the payload could not be sent
SendFailed(j) == spk[j].pc = "done" /\ synth[j] = "ok" /\ ~Sent(j)

\* C19: when the synthesis of a sentence raises, speak returns to the turn, which
\* is back in its generation loop with its text kept and no failure recorded;
\* the turn ends, and a turn that returns returns the concatenation of all the
\* increments it consumed.
C19_SynthesisFailureKeepsTurn ==
    /\ [][\A j \in Jobs :
            (spk[j].turn # 0 /\ ~SynthFailed(j) /\ SynthFailed(j)') =>
                /\ turns'[spk[j].turn].pc = "chat"
                /\ turns'[spk[j].turn].err = turns[spk[j].turn].err
                /\ turns'[spk[j].turn].full_response = turns[spk[j].turn].full_response]_vars
    /\ [](\A t \in Turns :
            (turns[t].fn = "chain" /\ turns[t].outcome = "returned") =>
                turns[t].result = Concat(turns[t].incs))
    /\ \A t \in Turns :
            []((\E j \in TurnJobs(t) : SynthFailed(j)) => <>TaskDone(t))

\* C19 witness: the synthesis of the first sentence raised, the second sentence
\* was consumed and delivered, and the turn returned both.
C19_Witness ==
    /\ SynthFailed(JobOf(1, 1))
    /\ Sent(JobOf(1, 2))
    /\ turns[1].outcome = "returned" /\ turns[1].result = "aa" /\ turns[1].err = ""

\* C20: after the send of an audio payload of a turn has failed, no later
\* sentence of the turn is given to speak.
C20_SendFailureAbortsTurn ==
    \A t \in Turns : \A i, n \in 1..MaxIncr :
        (i < n /\ SendFailed(JobOf(t, i))) => spk[JobOf(t, n)].pc = "idle"

\* ------------------------------------------------------------ properties: handle_group_interrupt

\* a step of the handle_group_interrupt call made for client c
GroupInterruptCallStep(c) == group_interrupts'[c] # group_interrupts[c]

\* C11: a step of handle_group_interrupt for group G changes no task but the one
\* registered under G, no registry entry and no group state but G's, and no
\* history and no notification count of a client that is not a member of G.
C11_GroupInterruptTouchesOnlyItsGroup ==
    [][\A c \in Clients \ Solo :
          LET G == get_client_group(c)
          IN GroupInterruptCallStep(c) =>
                /\ \A t \in Turns :
                      turns'[t] # turns[t] =>
                          t = current_conversation_tasks[G] /\ turns[t].key = G
                /\ \A key \in Keys \ {G} :
                      current_conversation_tasks'[key] = current_conversation_tasks[key]
                /\ \A g \in Groups \ {G} : group_state'[g] = group_state[g]
                /\ \A m \in Clients \ members(G) :
                      /\ client_history'[m] = client_history[m]
                      /\ notified'[m] = notified[m]
                /\ wire' = wire]_vars

\* C11 witness: the turn of group g1 was interrupted, its members have the
\* records and the notification, and the turn of group g2 is still running.
C11_Witness ==
    /\ turns[1].key = "g1" /\ turns[1].outcome = "cancelled"
    /\ turns[2].key = "g2" /\ turns[2].pc = "run"
    /\ current_conversation_tasks["g2"] = 2 /\ group_state["g2"] # ""
    /\ \A m \in members("g1") : notified[m] = 1 /\ Len(client_history[m]) = 2
    /\ \A m \in Clients \ members("g1") : notified[m] = 0 /\ client_history[m] = <<>>

ChainEndAt(t) ==
    {p \in DOMAIN wire[t] : wire[t][p].text = "conversation-chain-end"}
\* speak has created the synthesis task of job j
Submitted(j) == spk[j].pc \notin {"idle", "returned"}
NoAudioAfterChainEnd(t) ==
    \A p \in ChainEndAt(t) : \A q \in DOMAIN wire[t] :
        q > p => wire[t][q].type # "audio"

\* C23 as stated: when conversation-chain-end of a turn has been sent, every
\* synthesis job submitted in the turn has been sent or has failed, and no audio
\* payload of the turn follows conversation-chain-end.
C23_Original ==
    \A t \in Turns :
        /\ ChainEndAt(t) # {} =>
              \A j \in TurnJobs(t) :
                  Submitted(j) => (Sent(j) \/ SynthFailed(j) \/ SendFailed(j))
        /\ NoAudioAfterChainEnd(t)

\* C23 amended: when conversation-chain-end of a turn has been sent, the speak
\* call of every synthesis job submitted in the turn has ended (sent, failed, or
\* abandoned by the cancellation of the turn), and no audio payload of the turn
\* follows conversation-chain-end.
C23_ChainEndAfterJobs ==
    \A t \in Turns :
        /\ ChainEndAt(t) # {} => \A j \in TurnJobs(t) : Submitted(j) => Ended(j)
        /\ NoAudioAfterChainEnd(t)

\* C23 witness: the first sentence of the turn was sent, the synthesis of the
\* second one failed, and conversation-chain-end was sent last.
C23_Witness ==
    /\ turns[1].fn = "chain" /\ turns[1].outcome = "returned" /\ turns[1].deliveries = 0
    /\ Sent(JobOf(1, 1)) /\ SynthFailed(JobOf(1, 2))
    /\ ChainEndAt(1) = {Len(wire[1])}
    /\ wire[1][Len(wire[1]) - 1].type = "audio"

\* ------------------------------------------------------------ properties: turn input

\* the task t is created in this step
Created(t) == turns[t].fn = "none" /\ turns'[t].fn # "none"

\* C21: the turn that a mic-audio-end trigger starts has as its input the audio
\* buffered for the client when the trigger arrived.
C21_MicAudioEndTurnGetsBufferedAudio ==
    [][\A t \in Turns :
          (Created(t) /\ turns'[t].msg_type = "mic-audio-end") =>
              turns'[t].input = ndarray(received_data_buffers[turns'[t].client])]_vars

\* the notifications of type "user-input-transcription" among the messages w
TranscriptionCount(w) ==
    Cardinality({p \in DOMAIN w : w[p].type = "user-input-transcription"})
\* the turn task t has stored a human-role record
HumanStored(t) ==
    \/ \E p \in DOMAIN history :
          history[p].role = "human" /\ history[p].turn = t /\ history[p].by = "turn"
    \/ \E c \in Clients : \E p \in DOMAIN client_history[c] :
          /\ client_history[c][p].role = "human"
          /\ client_history[c][p].turn = t /\ client_history[c][p].by = "turn"
\* the turn has called agent_engine.chat (conversation_chain calls it in the step
\* that stores the human record)
GenerationInvoked(t) == turns[t].chats >= 1 \/ (turns[t].fn = "chain" /\ HumanStored(t))

\* C22: a turn started by mic-audio-end has sent exactly one notification of type
\* "user-input-transcription" by the time it stores the human record or invokes
\* the generation, and never more than one; a turn started by text-input sends
\* none.
C22_OneTranscriptionNotificationForAudio ==
    \A t \in Turns :
        /\ turns[t].msg_type = "text-input" => TranscriptionCount(wire[t]) = 0
        /\ turns[t].msg_type = "mic-audio-end" =>
              /\ TranscriptionCount(wire[t]) <= 1
              /\ (HumanStored(t) \/ GenerationInvoked(t)) => TranscriptionCount(wire[t]) = 1

\* the store the turn task t writes to: the history of /client-ws, or the
\* history of the client context
StoreOf(t) == IF turns[t].fn = "chain" THEN history ELSE client_history[turns[t].client]
\* the records with the role that the turn task t stored itself
StoredByTurn(t, role) ==
    {p \in DOMAIN StoreOf(t) :
        StoreOf(t)[p].role = role /\ StoreOf(t)[p].turn = t /\ StoreOf(t)[p].by = "turn"}
\* the turn has an input and a history to store in
Storing(t) ==
    \/ turns[t].fn = "chain" /\ turns[t].input # "none"
    \/ turns[t].fn = "single" /\ turns[t].client \in history_uid
\* the turn ran to its end: nothing raised, no cancellation was delivered
CompletedNormally(t) ==
    turns[t].outcome = "returned" /\ turns[t].err = "" /\ turns[t].deliveries = 0

\* C24: a turn has stored its one human-role record when it invokes the
\* generation; a turn that completed normally has stored one human-role record
\* and, after it, one AI-role record with the text it returns (the concatenation
\* of the increments) if that text is not empty, and no AI-role record if it is.
\* (The content is compared as long as no interrupt signal has come, which would
\* amend it.)
C24_RecordsOnNormalCompletion ==
    \A t \in Turns :
        Storing(t) =>
            /\ GenerationInvoked(t) => Cardinality(StoredByTurn(t, "human")) = 1
            /\ CompletedNormally(t) =>
                  /\ Cardinality(StoredByTurn(t, "human")) = 1
                  /\ turns[t].fn = "chain" => turns[t].result = Concat(turns[t].incs)
                  /\ IF turns[t].result = ""
                     THEN StoredByTurn(t, "ai") = {}
                     ELSE \E p \in DOMAIN StoreOf(t) :
                             /\ StoredByTurn(t, "ai") = {p}
                             /\ ninterrupts = 0 => StoreOf(t)[p].content = turns[t].result
                             /\ \A q \in StoredByTurn(t, "human") : q < p

\* the trigger that creates task t in this step is empty: a text-input without
\* text, or a mic-audio-end of a client that has nothing buffered
EmptyTrigger(t) ==
    \/ /\ turns'[t].fn = "chain"
       /\ turns'[t].input = "none"
    \/ /\ turns'[t].fn \in {"single", "group"}
       /\ turns'[t].msg_type = "text-input"
       /\ turns'[t].input = preprocess_user_text(preprocess_user_text(""))
    \/ /\ turns'[t].fn \in {"single", "group"}
       /\ turns'[t].msg_type = "mic-audio-end"
       /\ received_data_buffers[turns'[t].client] = 0

\* C25: an empty trigger creates no turn task (and so leaves the registry as it
\* is).
C25_EmptyTriggerDropped ==
    [][\A t \in Turns : Created(t) => ~EmptyTrigger(t)]_vars

\* ------------------------------------------------------------ properties: group idle after interrupt

\* C26: when a handle_group_interrupt call that cancelled a running group turn
\* goes on after `await task`, that task has ended, the registry has no entry
\* for the group and the group has no current speaker; only then comes the
\* broadcast, which is the only step that notifies and which changes no task, no
\* registry entry and no group state; and a trigger that starts no turn found
\* the task registered for some group still running.
C26_GroupIdleBeforeBroadcast ==
    /\ [][\A c \in Clients \ Solo :
             LET G == get_client_group(c)
                 task == group_interrupts[c].task
             IN /\ (group_interrupts[c].pc = "await"
                       /\ group_interrupts'[c].pc = "broadcast") =>
                      /\ turns'[task].pc = "done"
                      /\ current_conversation_tasks'[G] = 0
                      /\ group_state'[G] = ""
                      /\ notified' = notified
                /\ (group_interrupts[c].pc = "broadcast" /\ GroupInterruptCallStep(c)) =>
                      /\ turns[task].pc = "done"
                      /\ UNCHANGED <<turns, current_conversation_tasks, group_state>>]_vars
    /\ [][notified' # notified =>
             \E c \in Clients \ Solo :
                 group_interrupts[c].pc = "broadcast" /\ GroupInterruptCallStep(c)]_vars
    /\ [][(ntriggers' # ntriggers /\ \A t \in Turns : ~Created(t)) =>
             \E g \in Groups : IsActive(current_conversation_tasks[g])]_vars

\* C26 witness: the turn of group g1 was interrupted and the members notified;
\* the next trigger of a member has started a new turn of the group, which is
\* running.
C26_Witness ==
    /\ turns[1].key = "g1" /\ turns[1].outcome = "cancelled"
    /\ \A m \in members("g1") : notified[m] = 1
    /\ group_interrupts = [c \in Clients |-> NoCall]
    /\ turns[2].key = "g1" /\ turns[2].pc = "run"
    /\ current_conversation_tasks["g1"] = 2 /\ group_state["g1"] = turns[2].client

\* ------------------------------------------------------------ properties: session keys

\* the session key of a client: its group if it is in one, else the client
KeyOf(c) == IF get_client_group(c) = "" THEN c ELSE get_client_group(c)
\* the registry entry of key B and the task kept under it are as they were
KeptUnder(B) ==
    /\ current_conversation_tasks'[B] = current_conversation_tasks[B]
    /\ IF current_conversation_tasks[B] = 0
       THEN TRUE
       ELSE turns'[current_conversation_tasks[B]] = turns[current_conversation_tasks[B]]

\* C27: the handling of a trigger or of an interrupt signal of a client leaves
\* the entry and the task of every key but the client's as they were; a trigger
\* changes no buffer but the client's, which it leaves or resets, and an
\* interrupt changes no buffer. (C11 has the steps of handle_group_interrupt.)
C27_OtherKeysAndBuffersUntouched ==
    /\ [][ntriggers' # ntriggers =>
             \E c \in Clients :
                 /\ \A B \in Keys \ {KeyOf(c)} : KeptUnder(B)
                 /\ \A d \in Clients \ {c} :
                       received_data_buffers'[d] = received_data_buffers[d]
                 /\ received_data_buffers'[c] \in {0, received_data_buffers[c]}]_vars
    /\ [][ninterrupts' # ninterrupts =>
             /\ \E c \in Clients : \A B \in Keys \ {KeyOf(c)} : KeptUnder(B)
             /\ received_data_buffers' = received_data_buffers]_vars

\* C27 witness: c3 and c1 had audio buffered; the mic-audio-end of c3 started its
\* turn and reset its buffer only, and the interrupt of c3 cancelled that turn
\* only: the turn of group g1 is running and registered.
C27_Witness ==
    /\ turns[1].key = "g1" /\ turns[1].pc = "run" /\ ~turns[1].must_cancel
    /\ current_conversation_tasks["g1"] = 1
    /\ turns[2].key = "c3" /\ turns[2].msg_type = "mic-audio-end"
    /\ turns[2].outcome = "cancelled"
    /\ received_data_buffers["c1"] = MaxChunks /\ received_data_buffers["c3"] = 0

\* ------------------------------------------------------------ properties: speak

\* C28: the turn is not held in speak while the job of that speak call is
\* synthesising or being sent: speak has returned by then, and the turn is free to
\* take the next increment.
C28_SpeakDoesNotBlockTurn ==
    \A t \in Turns :
        (turns[t].fn = "chain" /\ turns[t].job # 0
            /\ spk[turns[t].job].pc \in {"synth", "send"}) => turns[t].pc # "speak"

\* the jobs that speak has accepted on manager m (the manager of a turn, or the
\* stand-alone one) before job j
AcceptedBefore(m, j) == {i \in Jobs : i < j /\ Submitted(i) /\ spk[i].mgr = m}

\* C29: the job that speak accepts as the k-th of its manager (k = 0, 1, 2, ...)
\* has sequence index k.
C29_IndexIsSubmissionRank ==
    \A j \in Jobs :
        Submitted(j) => spk[j].idx = Cardinality(AcceptedBefore(spk[j].mgr, j))

\* job j holds the emission slot of its manager
AtOwnIndex(j) == next_index_to_play[spk[j].mgr] = spk[j].idx

\* C30: the audio payload of a job is sent in a step that starts with
\* next_index_to_play at the job's index; a job that waits while
\* next_index_to_play differs from its index goes on waiting and has sent
\* nothing, whether or not its synthesis has finished.
C30_SentOnlyAtOwnIndex ==
    /\ [][\A j \in Jobs : (~Sent(j) /\ Sent(j)') => AtOwnIndex(j)]_vars
    /\ [][\A j \in Jobs :
             (spk[j].pc = "wait" /\ ~AtOwnIndex(j)) =>
                 spk'[j].pc = "wait" /\ ~Sent(j)']_vars

\* C30 witness: the synthesis of job 2 has finished while job 1, which holds the
\* slot, is sending; job 2 waits and nothing of it is sent.
C30_Witness ==
    /\ spk[1].pc = "send" /\ spk[1].idx = 0 /\ AtOwnIndex(1)
    /\ spk[2].pc = "wait" /\ spk[2].idx = 1 /\ synth[2] = "ok"
    /\ wire[0] = <<>>

\* C10: a turn that is cancelled after k >= 1 increments were consumed ends by
\* returning the concatenation of these k increments to its caller.
C10_CancelledTurnReturnsPartialText ==
    [][\A t \in Turns :
          (turns[t].cancel_k >= 1 /\ ~TaskDone(t) /\ turns'[t].pc = "done") =>
              /\ turns'[t].outcome = "returned"
              /\ turns'[t].result = Concat(SubSeq(turns[t].incs, 1, turns[t].cancel_k))]_vars

\* ------------------------------------------------------------ properties: audio files

\* C31: when a speak call that has the audio file of its synthesis ends, the
\* file is removed: whether the payload was sent, its preparation or send
\* failed, or the call was cancelled while sending.
C31_FileRemovedWhenSpeakEnds ==
    [][\A j \in Jobs : (spk[j].pc = "send" /\ Ended(j)') => j \notin files']_vars

\* no speak call that ended without a cancellation has left its file
FileRemovedUnlessCancelled == \A j \in Jobs : spk[j].pc = "done" => j \notin files

\* ------------------------------------------------------------ properties: drain and clear

\* speak has created no synthesis task in turn t
NoJobSubmitted(t) == \A j \in TurnJobs(t) : ~Submitted(j)
\* the generation sequence of turn t ends in this step (no increment is taken,
\* nothing raised, no cancellation delivered)
GenerationEnds(t) ==
    /\ IsChain(t, "chat")
    /\ turns'[t].pc \notin {"chat", "speak"}
    /\ turns'[t].err = turns[t].err

\* C32: when the generation of a turn that submitted no job ends, the turn does
\* not wait for jobs: it is in the final send at once, with next_index_to_play
\* at 0 and the job list empty; and clear applied twice to the state of a manager
\* gives what clear applied once gives.
C32_DrainOfEmptyManager ==
    /\ [][\A t \in Turns :
             (GenerationEnds(t) /\ NoJobSubmitted(t)) =>
                 /\ turns'[t].pc = "final_send"
                 /\ ManagerState(t)' = [tl |-> <<>>, nx |-> 0]]_vars
    /\ [](\A m \in Mgrs :
             /\ clear(clear(ManagerState(m))) = clear(ManagerState(m))
             /\ clear(ManagerState(m)) = [tl |-> <<>>, nx |-> 0])

\* C32 witness: the only increment of the turn was blank after filtering, so no
\* job was submitted; the turn has returned it with its manager empty and the
\* counter at 0.
C32_Witness ==
    /\ turns[1].fn = "chain" /\ turns[1].outcome = "returned"
    /\ turns[1].incs = <<"[x]">> /\ turns[1].result = "[x]"
    /\ NoJobSubmitted(1)
    /\ ManagerState(1) = [tl |-> <<>>, nx |-> 0]

\* ------------------------------------------------------------ properties: audio output

\* the turn runs conversation_chain with an agent whose output type is AUDIO
AudioTurn(t) == turns[t].fn = "chain" /\ turns[t].output_type = "AUDIO"
\* the audio payloads among the messages w, in the order of delivery
RECURSIVE AudioMsgs(_)
AudioMsgs(w) ==
    IF w = <<>> THEN <<>>
    ELSE IF Head(w).type = "audio" THEN <<Head(w)>> \o AudioMsgs(Tail(w))
         ELSE AudioMsgs(Tail(w))
\* the payloads of the first n pairs the turn consumed, in arrival order
PayloadsOf(t, n) == [i \in 1..n |-> PairMsg(t, turns[t].pairs[i])]
\* the texts of the pairs the turn consumed, in arrival order
PairTexts(t) == [i \in 1..Len(turns[t].pairs) |-> turns[t].pairs[i].text]

\* C33: a turn of an agent whose output type is AUDIO submits no job to its
\* TTSTaskManager; the audio payloads it has sent are those of the pairs it
\* consumed, one each, in arrival order (the payload of the last pair may be in
\* flight, or lost with a send that raised or a cancellation, which end the
\* turn); a turn that completed normally has sent one payload for every pair and
\* returns the concatenation of the pair texts in arrival order.
C33_AudioPairsSentInArrivalOrder ==
    \A t \in Turns :
        AudioTurn(t) =>
            /\ NoJobSubmitted(t) /\ task_list[t] = <<>>
            /\ \E n \in 0..Len(turns[t].pairs) :
                  /\ n >= Len(turns[t].pairs) - 1
                  /\ AudioMsgs(wire[t]) = PayloadsOf(t, n)
            /\ CompletedNormally(t) =>
                  /\ AudioMsgs(wire[t]) = PayloadsOf(t, Len(turns[t].pairs))
                  /\ turns[t].result = Concat(PairTexts(t))

\* C33 witness: the turn consumed the pair (2, "b") and then the pair (1, "a"),
\* sent their payloads in that order between its start and end notifications,
\* and returned "ba".
C33_Witness ==
    /\ AudioTurn(1) /\ CompletedNormally(1)
    /\ turns[1].pairs = <<[audio |-> 2, text |-> "b"], [audio |-> 1, text |-> "a"]>>
    /\ AudioMsgs(wire[1]) = <<PairMsg(1, turns[1].pairs[1]), PairMsg(1, turns[1].pairs[2])>>
    /\ Len(wire[1]) = 4
    /\ turns[1].result = "ba"

\* ------------------------------------------------------------ properties: chain start and end

\* the positions of "conversation-chain-start" among the messages of turn t
ChainStartAt(t) ==
    {p \in DOMAIN wire[t] : wire[t][p].text = "conversation-chain-start"}
\* the run of conversation_chain of turn t has ended with conversation-chain-end
\* sent once, as its last notification
EndedWithChainEnd(t) == ChainEndAt(t) = {Len(wire[t])}

\* C34: a run of conversation_chain that has sent conversation-chain-start never
\* sends more than one conversation-chain-end, and when it has ended it has sent
\* exactly one, as its last notification: whether it completed normally, had no
\* input, failed, or was cancelled.
C34_ChainEndSentOnceAndLast ==
    \A t \in Turns :
        (turns[t].fn = "chain" /\ ChainStartAt(t) # {}) =>
            /\ Cardinality(ChainEndAt(t)) <= 1
            /\ TaskDone(t) => EndedWithChainEnd(t)

\* the same for the runs that did not end cancelled: the `return` of the finally
\* block was reached
ChainEndUnlessEndedCancelled ==
    \A t \in Turns :
        (turns[t].fn = "chain" /\ ChainStartAt(t) # {}) =>
            /\ Cardinality(ChainEndAt(t)) <= 1
            /\ turns[t].outcome = "returned" => EndedWithChainEnd(t)

\* every run that has sent conversation-chain-start ends
StartedChainEnds ==
    \A t \in Turns : [](ChainStartAt(t) # {} => <>TaskDone(t))

\* ------------------------------------------------------------ properties: interrupt of an idle group

\* C35: an interrupt signal of a member of a group that has no running turn (no
\* task registered, or the registered task has ended) starts no
\* handle_group_interrupt call that goes on past the check, and a signal that
\* starts none changes nothing: no task is cancelled, no interrupt hook called,
\* no record stored, no notification sent, and the registry and the group states
\* are as they were.
C35_GroupInterruptWithoutTurnIsNoOp ==
    /\ [][\A c \in Clients \ Solo :
             (ninterrupts' # ninterrupts
                 /\ ~IsActive(current_conversation_tasks[get_client_group(c)])) =>
                 group_interrupts'[c] = group_interrupts[c]]_vars
    /\ [][(ninterrupts' # ninterrupts /\ group_interrupts' = group_interrupts) =>
             UNCHANGED <<turns, interrupt_hooks, client_history, history, notified, wire,
                         current_conversation_tasks, group_state, ttsVars,
                         received_data_buffers, ntriggers>>]_vars

\* C35 witness: the turn of group g1 has ended and is still registered, group g2
\* never had a turn; both interrupt signals of the run came for a group without
\* a running turn: no cancellation, hook call, record or notification.
C35_Witness ==
    /\ ninterrupts = 2
    /\ NTurns = 1 /\ turns[1].key = "g1" /\ turns[1].outcome = "returned"
    /\ current_conversation_tasks["g1"] = 1
    /\ \A c \in Clients :
          /\ interrupt_hooks[c].calls = 0
          /\ client_history[c] = <<>>
          /\ notified[c] = 0
          /\ group_interrupts[c] = NoCall

\* ------------------------------------------------------------ properties: interrupt hook failures

\* the interrupt hook of client m is called in this step, and raises
HookRaises(m) == interrupt_hooks'[m].raised = interrupt_hooks[m].raised + 1

\* C36: an interrupt hook that raises does not abort an interrupt handler. When
\* a handle_group_interrupt call goes on after `await task`, the hook of every
\* member is called, every member with a history id whose hook returned gets the
\* AI record with the heard text and the marker, whichever hooks raised, and the
\* call goes on to the broadcast, which notifies every member; when the hook
\* raises in handle_individual_interrupt, the heard text and the marker are
\* stored all the same.
C36_HookErrorDoesNotAbortInterrupt ==
    /\ [][\A c \in Clients \ Solo :
             LET G == get_client_group(c)
                 task == group_interrupts[c].task
             IN /\ (group_interrupts[c].pc = "await" /\ GroupInterruptCallStep(c)) =>
                      /\ group_interrupts'[c].pc = "broadcast"
                      /\ \A m \in members(G) :
                            /\ interrupt_hooks'[m].calls = interrupt_hooks[m].calls + 1
                            /\ (m \in history_uid /\ ~HookRaises(m)) =>
                                  client_history'[m] = client_history[m] \o InterruptPair(task)
                /\ (group_interrupts[c].pc = "broadcast" /\ GroupInterruptCallStep(c)) =>
                      \A m \in members(G) : notified'[m] = notified[m] + 1]_vars
    /\ [][\A c \in Solo :
             (HookRaises(c) /\ c \in history_uid) =>
                 client_history'[c] =
                     client_history[c] \o InterruptPair(current_conversation_tasks[c])]_vars

\* C36 witness: the hook of c1 raised in the interrupt of the turn of group g1:
\* c2 has the pair all the same and both members were notified; the hook of c3
\* raised in the interrupt of its own turn, and c3 has the pair.
C36_Witness ==
    /\ interrupt_hooks["c1"] = [calls |-> 1, raised |-> 1]
    /\ interrupt_hooks["c2"] = [calls |-> 1, raised |-> 0]
    /\ interrupt_hooks["c3"] = [calls |-> 1, raised |-> 1]
    /\ \E t \in Turns : turns[t].key = "g1" /\ client_history["c2"] = InterruptPair(t)
    /\ \E t \in Turns : turns[t].key = "c3" /\ client_history["c3"] = InterruptPair(t)
    /\ notified["c1"] = 1 /\ notified["c2"] = 1

\* ------------------------------------------------------------ properties: one generation per turn

\* C37: a turn of process_single_conversation calls agent_engine.chat once at
\* most (a turn that completes, exactly once).
C37_GenerationInvokedOncePerTurn ==
    \A t \in Turns : turns[t].fn = "single" => turns[t].chats <= 1

\* the "ai-text" payloads, which carry the whole text of the first generation,
\* among the messages w
AiTextCount(w) == Cardinality({p \in DOMAIN w : w[p].type = "ai-text"})
\* a turn in its second generation has sent the response of the first one
SecondGenerationAfterFirstResponse ==
    \A t \in Turns :
        (turns[t].fn = "single" /\ turns[t].chats = 2) => AiTextCount(wire[t]) = 1

\* ------------------------------------------------------------ properties: the prompt

\* the text wrapped n times by preprocess_user_text
RECURSIVE Wrapped(_, _)
Wrapped(n, text) == IF n = 0 THEN text ELSE preprocess_user_text(Wrapped(n - 1, text))

\* C38: every prompt that the turn of a text-input trigger gives to the
\* generation is the text of the trigger wrapped by preprocess_user_text exactly
\* once.
C38_PromptWrappedOnce ==
    \A t \in Turns :
        (turns[t].fn = "single" /\ turns[t].msg_type = "text-input") =>
            \A i \in DOMAIN turns[t].prompts :
                \E text \in Texts : turns[t].prompts[i] = Wrapped(1, text)

\* what the code does: the turn input is the text wrapped twice, the prompt of
\* the first generation is the text wrapped three times, that of the second
\* generation the text wrapped twice
PromptsWrappedTwiceOrMore ==
    \A t \in Turns :
        (turns[t].fn = "single" /\ turns[t].msg_type = "text-input" /\ ~TaskDone(t)) =>
            \E text \in Texts :
                /\ turns[t].input = Wrapped(2, text)
                /\ \A i \in DOMAIN turns[t].prompts :
                      turns[t].prompts[i] = Wrapped(IF i = 1 THEN 3 ELSE 2, text)

\* ---- C39

PassedOn(i) == requests[i].outcome = "call_next"
Rejected(i) == requests[i].outcome = "HTTPException 429"
\* the requests of an address that were passed on and whose times lie in the
\* window that starts at `from` and is shorter than the period
PassedInWindow(a, from) ==
    {i \in 1..Len(requests) : /\ PassedOn(i)
                              /\ requests[i].user_id = a
                              /\ from <= requests[i].at
                              /\ requests[i].at - from < period * TicksPerSecond}
\* the requests of the same address passed on before request i, less than a
\* period before it
PassedBefore(i) ==
    {j \in 1..(i - 1) : /\ PassedOn(j)
                        /\ requests[j].user_id = requests[i].user_id
                        /\ requests[i].at - requests[j].at < period * TicksPerSecond}
TimesOf(reqs) == {reqs[k] : k \in 1..Len(reqs)}

\* C39: for each address, at most max_requests of the requests whose times lie in a
\* window shorter than the period are passed on; a request is rejected, with
\* HTTPException(429), exactly when max_requests requests of its own address were
\* passed on less than a period before it, so that neither the rejected requests
\* nor the requests of other addresses count; and the dict holds only the times
\* of requests that were passed on.
C39_AtMostMaxRequestsPerWindow ==
    /\ \A a \in Addrs : \A from \in 0..clock :
           Cardinality(PassedInWindow(a, from)) <= max_requests
    /\ \A i \in 1..Len(requests) :
           /\ PassedOn(i) \/ Rejected(i)
           /\ Rejected(i) <=> Cardinality(PassedBefore(i)) >= max_requests
    /\ \A a \in Addrs :
           TimesOf(user_requests[a]) \subseteq
               {requests[i].at : i \in {k \in 1..Len(requests) :
                                            PassedOn(k) /\ requests[k].user_id = a}}

\* C39 (witness): a request of an address is rejected while a request of the other
\* address is passed on at the same time, and the address is admitted again less
\* than a period after its rejected request.
C39_Witness ==
    \E i, j, k \in 1..Len(requests) :
        /\ Rejected(i) /\ PassedOn(j) /\ PassedOn(k)
        /\ requests[j].user_id # requests[i].user_id
        /\ requests[j].at = requests[i].at /\ j > i
        /\ requests[k].user_id = requests[i].user_id
        /\ k > i
        /\ requests[k].at - requests[i].at < period * TicksPerSecond

====
